---- MODULE Spec2Model ----
(***************************************************************************)
(* MobileAR: the ArUco marker tracker (frame-tracking path, background     *)
(* bundle-adjustment thread, destructor) and the panoramic environment     *)
(* builder (AddFrames).                                                    *)
(*                                                                         *)
(* Geometry is abstracted to one dimension: a position is an integer       *)
(* coordinate (cm) and an orientation an integer angle (degrees) about one *)
(* axis; distances and relative angles are absolute differences, compared  *)
(* with the thresholds of the source.  Results of OpenCV / ceres calls     *)
(* (marker detection, PnP, non-linear solves) are nondeterministic.        *)
(***************************************************************************)
EXTENDS Integers, Sequences, FiniteSets, TLC

\* ------------------------------------------------------------------ bounds
\* Number of TrackFrame calls in a session.
MaxFrames == 3

\* AddFrames is called while fewer frames than this are accumulated.
MaxEnvFrames == 3

\* The same, in a session of single good frames that gets past the bootstrap.
MaxBootFrames == 6

\* The same, and the number of Composite calls, in a session with Composite.
MaxCompositeFrames == 3
MaxComposites == 2
\* The same in a session of batches of two exposures.
MaxProjectFrames == 4
\* Largest recursion depth of a light probe sampler.
MaxDepth == 2
\* Largest number of UpdateMarker calls on an orientation filter.
MaxUpdates == 100

\* ------------------------------------------------------- program constants
\* Minimum distance between graph poses.
kMinDistance == 10
\* Minimum angle between two poses (60 / 180 * pi, here in degrees).
kMinAngle == 60
\* Number of measurements kept for the relative pose.
kRelativePoses == 50

\* Blur threshold 0.01 on the share of sharp edges, here in thousandths.
kMinBlurThreshold == 10
\* Minimum number of keypoints of a frame.
kMinFeatures == 50
\* Default edge threshold of the blur detector.
threshold_ == 35
\* EKFOrientation: the value 1 of a quaternion component in fixed point, and
\* in units of 1e-4 the process noise of the quaternion (5e-2) and of the other
\* components (1e-4), the initial variance (10) and the marker noise (1e-2).
FixedOne == 10000
q_Quat == 500
q_Rest == 1
p_Init == 100000
rM_Diag == 100
\* Minimum number of global pairings once enough frames exist.
kMinPairs == 2
\* Number of accumulated frames from which kMinPairs is demanded.
kBootstrapFrames == 5
\* Tolerance 1e-7 on exposure times, which are counted in units of 1e-7 s.
kExposureTolerance == 1

\* Threshold on the scatter of the observations of one frame in a group.
kMaxGroupStd == 15
\* Minimum number of matches of a pair of frames.
kMinMatches == 25
\* Cap of the Hamming-distance gate.
kMaxHammingDistance == 20
\* Factor of the gate on the best match's distance.
kBestDistanceFactor == 5

\* --------------------------------------------------------------- universes
\* Marker ids the detector may report: two survive the id filter, one does not.
MarkerIds == {0, 5, 7}
\* reference_ before the first assignment.
NoRef == -1
\* Results of detectMarkers: sequences of distinct ids; corners[i] is tagged
\* with the id it was detected for, so corners = the detected sequence.
Detections == {<<>>, <<0>>, <<5>>, <<7>>, <<0, 5>>, <<0, 7>>, <<7, 0>>}

\* Marker pose { {0,0,0}, {1,0,0,0} }: t = 0 is the origin, q = 0 the identity.
Origin == [t |-> 0, q |-> 0]
MarkerPoses == {Origin, [t |-> 1, q |-> 1]}
\* Camera poses: at the origin, 20 cm away, rotated by 90 degrees.
CamPoses == {[t |-> 0, q |-> 0], [t |-> 20, q |-> 0], [t |-> 0, q |-> 90]}

\* Exposure times (units of 1e-7 s), blur scores (thousandths) and keypoint
\* counts of the frames handed to AddFrames.
Times == {10, 11}
Pers == {0, 10}
KeypointCounts == {0, 49, 50}
\* Image positions of the keypoints 0 and 1 of a frame: close to each other,
\* or far apart.
NearPts == <<<<0, 0>>, <<12, 0>>>>
FarPts == <<<<0, 0>>, <<60, 20>>>>
PtLayouts == {NearPts, FarPts}
RawFrames == [time : Times, per : Pers, nkp : KeypointCounts, pts : PtLayouts]
Batches == {<<f>> : f \in RawFrames} \cup (RawFrames \X RawFrames)
\* What is left of the matches of a pair of frames after the gates of Match
\* (rotation, Hamming distance, gyro consistency, homography): nothing, or the
\* matches of one or two keypoints.
\* Keypoint 0 of the query can also be matched with keypoint 1 of the train.
MatchLists ==
  {<<>>,
   <<[queryIdx |-> 0, trainIdx |-> 0]>>,
   <<[queryIdx |-> 0, trainIdx |-> 0], [queryIdx |-> 1, trainIdx |-> 1]>>,
   <<[queryIdx |-> 0, trainIdx |-> 1]>>}
BAMethods == {"RAYS", "POINTS", "VECTORS", "REPROJ"}
\* Sessions: what AddFrames is given, how many frames and Composite calls.
FullSession ==
  [sizes |-> {1, 2}, times |-> Times, pers |-> Pers, nkps |-> KeypointCounts,
   layouts |-> {NearPts},
   lists |-> {<<>>, <<[queryIdx |-> 0, trainIdx |-> 0], [queryIdx |-> 1, trainIdx |-> 1]>>},
   limit |-> MaxEnvFrames, composites |-> 0]
BootSession ==
  [sizes |-> {1}, times |-> {10}, pers |-> Pers, nkps |-> {50}, layouts |-> {NearPts},
   lists |-> {<<>>, <<[queryIdx |-> 0, trainIdx |-> 0]>>},
   limit |-> MaxBootFrames, composites |-> 0]
CompositeSession ==
  [sizes |-> {1}, times |-> {10}, pers |-> {10}, nkps |-> {50}, layouts |-> PtLayouts,
   lists |-> {<<>>, <<[queryIdx |-> 0, trainIdx |-> 0]>>, <<[queryIdx |-> 0, trainIdx |-> 1]>>},
   limit |-> MaxCompositeFrames, composites |-> MaxComposites]
\* A session of two batches of two exposures each, then one Composite call.
ProjectSession ==
  [sizes |-> {2}, times |-> {10}, pers |-> {10}, nkps |-> {50}, layouts |-> PtLayouts,
   lists |-> {<<>>, <<[queryIdx |-> 0, trainIdx |-> 0]>>, <<[queryIdx |-> 0, trainIdx |-> 1]>>},
   limit |-> MaxProjectFrames, composites |-> 1]
\* Hamming distances of the matches bfMatcher_ returns for a pair of frames,
\* and how many matches have each distance.
Distances == {0, 2, 10, 20, 30}
MatchCounts == {0, 1, 24}
\* 8-bit pixel values and image shapes <<rows, cols>> of a Moments table, and
\* the orders I, J of the moment.
PixelValues == {0, 1, 255}
Shapes == {<<1, 2>>, <<2, 1>>, <<2, 2>>, <<3, 2>>}
Orders == 0..2
Images == UNION {[1..sh[1] -> [1..sh[2] -> PixelValues]] : sh \in Shapes}
Exceptions == {"BLURRY", "NOT_ENOUGH_FEATURES", "NO_PAIRWISE_MATCHES", "NO_GLOBAL_MATCHES"}

VARIABLES
  \* ---- EnvironmentBuilder::Match, the Hamming-distance gate
  hamming,        \* [pc, matches, gated, survivors, empty]
  \* ---- Moments<I, J>
  moments,        \* [pc, I, J, image, rows, cols, s_, r, value]
  \* ---- BlurDetector and the blur check of AddFrames
  blurd,          \* [pc, windows, Nedge, Nda, Nrg, Nbrg, per, blur, error]
  \* ---- LightProbeSampler, MedianCutSampler, VarianceCutSampler
  sampler,        \* [pc, kind, base, heightInt, depth_, illum, tables, stack, lights_, cuts, ...]
  \* ---- EKFOrientation
  ekf,            \* [pc, zm, x, tangent, radial, rest, updates, prevTrace]
  \* ---- EnvironmentBuilder
  exposures_,     \* the recorded exposure times
  frames_,        \* accumulated frames: Seq of [index, level, pts, optimized, q]
  groups_,        \* match groups: Seq of Seq of [frame, pt]
  baMethod_,      \* configuration: the bundle adjustment method
  session,        \* what this session gives to the builder
  call,           \* what the last AddFrames call was given, how far it got
  pcC,            \* position in Composite
  events,         \* phases completed and notifications made by the Composite call
  composites,     \* Composite calls made so far
  composited,     \* the result of Project
  graph_,         \* feature graph: <<frame, keypoint>> -> Seq of <<frame, keypoint>>
  index_,         \* next available frame index
  checkBlur_,     \* configuration: a blur detector was created
  lastError,      \* how the last AddFrames call ended
  aborted,        \* an assert of AddFrames failed
  \* ---- ArUcoTracker
  markers_,       \* id -> Marker [t, q]
  reference_,     \* id of the reference marker
  poses_,         \* the pose log: Seq of [t, q, observed]
  markerMutex_,   \* "free" | "track" | "ba"
  poseMutex_,     \* "free" | "track" | "ba"
  running_,       \* std::atomic<bool>
  pcT,            \* position of the thread calling TrackFrame / the destructor
  tl,             \* locals of TrackFrameImpl
  pcB,            \* position of the bundle adjustment thread
  bl,             \* locals of RunBundleAdjustment / BundleAdjust
  kf,             \* Tracker: updates applied to kfr and kfp
  relativePoses,  \* Tracker: size of the relative pose buffer
  frames,         \* TrackFrame calls made so far
  crashed,        \* the process was aborted (failed assert, fault)
  NDEBUG,         \* build flavour: asserts compiled out
  scene,          \* what detectMarkers can report in this session
  views           \* the camera poses of this session

trackerVars == <<markers_, reference_, poses_, markerMutex_, poseMutex_, running_,
                 pcT, tl, pcB, bl, kf, relativePoses, frames, crashed>>
pureVars == <<hamming, moments, blurd, sampler, ekf>>
builderVars == <<exposures_, frames_, graph_, index_, checkBlur_, baMethod_, session, lastError,
                 aborted, call, groups_, pcC, events, composites, composited>>
envVars == <<builderVars, pureVars>>
vars == <<trackerVars, NDEBUG, scene, views, envVars>>

\* ----------------------------------------------------------------- helpers
Range(s) == {s[k] : k \in 1..Len(s)}
Abs(x) == IF x < 0 THEN -x ELSE x

\* id % 5 != 0 is removed.
Keep(id) == id % 5 = 0
FilterIds(det) == SelectSeq(det, Keep)

\* (pose.t - t).norm()
Distance(a, b) == Abs(a - b)
\* std::abs(Angle(pose.q * q.inverse()))
AngleBetween(a, b) == Abs(a - b)

TLIdle == [det |-> <<>>, ids |-> <<>>, q |-> 0, t |-> 0, i |-> 0,
           blocks |-> {}, result |-> "none", inserted |-> {}, wasEmpty |-> FALSE]
BLInit == [processed |-> 0, markers |-> <<>>, poses |-> 0, blocks |-> {},
           miss |-> FALSE]

TrackerInit ==
  /\ markers_ = <<>>
  /\ reference_ = NoRef
  /\ poses_ = <<>>
  /\ markerMutex_ = "free"
  /\ poseMutex_ = "free"
  /\ running_ = TRUE
  /\ pcT = "idle"
  /\ tl = TLIdle
  /\ pcB = "while"
  /\ bl = BLInit
  /\ kf = [kfr |-> 0, kfp |-> 0]
  /\ relativePoses = 0
  /\ frames = 0
  /\ crashed = FALSE

\* No pair of frames is being matched, no Moments table exists.
HammingIdle == [pc |-> "idle", matches |-> <<>>, gated |-> FALSE, survivors |-> <<>>, empty |-> FALSE]
MomentsIdle == [pc |-> "idle", I |-> 0, J |-> 0, image |-> <<>>, rows |-> 0, cols |-> 0,
                s_ |-> <<>>, r |-> <<>>, value |-> 0]
\* No frame is being examined by the blur detector.
BlurIdle == [pc |-> "idle", windows |-> <<>>, Nedge |-> 0, Nda |-> 0, Nrg |-> 0, Nbrg |-> 0,
             per |-> 0, blur |-> 0, error |-> "OK"]
\* No sampler exists.
SamplerIdle == [pc |-> "idle", kind |-> "median", base |-> "ar", heightInt |-> FALSE,
                depth_ |-> 0, illum |-> <<>>, rows |-> 0, cols |-> 0, tables |-> <<>>,
                stack |-> <<>>, lights_ |-> <<>>, cuts |-> <<>>, divZero |-> FALSE,
                outOfTable |-> FALSE, failed |-> {}]
\* No orientation filter exists.
EkfIdle == [pc |-> "idle", zm |-> 0, x |-> 0, tangent |-> 0, radial |-> 0, rest |-> 0,
            updates |-> 0, prevTrace |-> 0]
PureIdle ==
  /\ hamming = HammingIdle
  /\ moments = MomentsIdle
  /\ blurd = BlurIdle
  /\ sampler = SamplerIdle
  /\ ekf = EkfIdle

\* EnvironmentBuilder::EnvironmentBuilder
BuilderInit ==
  /\ exposures_ = <<>>
  /\ frames_ = <<>>
  /\ graph_ = <<>>
  /\ groups_ = <<>>
  /\ index_ = 0
  /\ lastError = "none"
  /\ aborted = FALSE
  /\ call = [mismatch |-> FALSE, black |-> "none", reached |-> FALSE, global |-> 0]
  /\ pcC = "idle"
  /\ events = <<>>
  /\ composites = 0
  /\ composited = <<>>

\* A builder with or without blur detector, given batches of one or two frames.
EnvInit ==
  /\ BuilderInit
  /\ checkBlur_ \in BOOLEAN
  /\ baMethod_ = "RAYS"
  /\ session = FullSession

Init ==
  /\ TrackerInit
  /\ EnvInit
  /\ PureIdle
  /\ NDEBUG \in BOOLEAN
  /\ scene = Detections
  /\ views = CamPoses

\* A session in which markers 0 and 5 are in view, the camera at the origin
\* or 20 cm away.
LiveInit ==
  /\ TrackerInit
  /\ EnvInit
  /\ PureIdle
  /\ NDEBUG = TRUE
  /\ scene = {<<0>>, <<0, 5>>}
  /\ views = {c \in CamPoses : c.q = 0}


\* ------------------------------------------------------------------ locks
Alive == ~crashed

\* ----------------------------------------------- Tracker::TrackFrame (1/2)
\* TrackFrame reads the orientation, calls TrackFrameImpl: detectMarkers,
\* the early return on no detection, the id filter.
T_TrackFrame ==
  /\ Alive /\ pcT = "idle" /\ running_
  /\ frames < MaxFrames
  /\ frames' = frames + 1
  /\ \E det \in scene :
       IF det = <<>>
       THEN /\ tl' = [TLIdle EXCEPT !.result = "nodetect"]
            /\ pcT' = "ret"
       ELSE /\ tl' = [TLIdle EXCEPT !.det = det, !.ids = FilterIds(det)]
            /\ pcT' = "empty"
  /\ UNCHANGED <<markers_, reference_, poses_, markerMutex_, poseMutex_, running_,
                 pcB, bl, kf, relativePoses, crashed, NDEBUG, scene, views, envVars>>

\* if (markers_.empty()): read outside the lock.
T_CheckEmpty ==
  /\ Alive /\ pcT = "empty"
  /\ IF DOMAIN markers_ = {}
     THEN /\ pcT' = "lockRef"
          /\ tl' = [tl EXCEPT !.wasEmpty = TRUE]
     ELSE /\ pcT' = "found"
          /\ tl' = tl
  /\ UNCHANGED <<markers_, reference_, poses_, markerMutex_, poseMutex_, running_,
                 pcB, bl, kf, relativePoses, frames, crashed, NDEBUG, scene, views, envVars>>

\* std::lock_guard<std::mutex> lock(markerMutex_) of the reference insertion.
T_LockRef ==
  /\ Alive /\ pcT = "lockRef"
  /\ markerMutex_ = "free"
  /\ markerMutex_' = "track"
  /\ pcT' = "insertRef"
  /\ UNCHANGED <<markers_, reference_, poses_, poseMutex_, running_, tl,
                 pcB, bl, kf, relativePoses, frames, crashed, NDEBUG, scene, views, envVars>>

\* markers_[ids[0]] = origin; reference_ = ids[0].  With every detected id
\* filtered out, ids[0] reads past the end of an empty vector: the build
\* yields some int (the stale element, anything else) or faults.
T_InsertRef ==
  /\ Alive /\ pcT = "insertRef"
  /\ \/ /\ tl.ids # <<>>
        /\ markers_' = (tl.ids[1] :> Origin) @@ markers_
        /\ reference_' = tl.ids[1]
        /\ tl' = [tl EXCEPT !.inserted = @ \cup {tl.ids[1]}]
        /\ markerMutex_' = "free"
        /\ pcT' = "found"
        /\ UNCHANGED crashed
     \/ /\ tl.ids = <<>>
        /\ \E g \in MarkerIds :
             /\ markers_' = (g :> Origin) @@ markers_
             /\ reference_' = g
             /\ tl' = [tl EXCEPT !.inserted = @ \cup {g}]
        /\ markerMutex_' = "free"
        /\ pcT' = "found"
        /\ UNCHANGED crashed
     \/ /\ tl.ids = <<>>
        /\ crashed' = TRUE
        /\ UNCHANGED <<markers_, reference_, tl, markerMutex_, pcT>>
  /\ UNCHANGED <<poses_, poseMutex_, running_,
                 pcB, bl, kf, relativePoses, frames, NDEBUG, scene, views, envVars>>

\* The search for a detected marker that is already known, outside the lock.
T_FindKnown ==
  /\ Alive /\ pcT = "found"
  /\ IF \E k \in 1..Len(tl.ids) : tl.ids[k] \in DOMAIN markers_
     THEN /\ pcT' = "pnp"
          /\ tl' = tl
     ELSE /\ pcT' = "ret"
          /\ tl' = [tl EXCEPT !.result = "notfound"]
  /\ UNCHANGED <<markers_, reference_, poses_, markerMutex_, poseMutex_, running_,
                 pcB, bl, kf, relativePoses, frames, crashed, NDEBUG, scene, views, envVars>>

\* The camera pose from the known markers (markers_.find and world() outside
\* the lock), by solvePnP or solvePnPRansac: fails, or yields some pose.
T_SolvePose ==
  /\ Alive /\ pcT = "pnp"
  /\ \/ /\ pcT' = "ret"
        /\ tl' = [tl EXCEPT !.result = "pnpfail"]
     \/ \E c \in views :
          /\ pcT' = "new"
          /\ tl' = [tl EXCEPT !.q = c.q, !.t = c.t, !.i = 1]
  /\ UNCHANGED <<markers_, reference_, poses_, markerMutex_, poseMutex_, running_,
                 pcB, bl, kf, relativePoses, frames, crashed, NDEBUG, scene, views, envVars>>

\* One iteration of the loop over ids that looks for new markers:
\* markers_.find(ids[i]) outside the lock, then solvePnP of the marker alone.
T_NewMarker ==
  /\ Alive /\ pcT = "new"
  /\ tl.i <= Len(tl.ids)
  /\ IF tl.ids[tl.i] \in DOMAIN markers_
     THEN /\ tl' = [tl EXCEPT !.i = @ + 1]
          /\ pcT' = "new"
     ELSE \/ /\ tl' = [tl EXCEPT !.i = @ + 1]
             /\ pcT' = "new"
          \/ /\ tl' = tl
             /\ pcT' = "lockNew"
  /\ UNCHANGED <<markers_, reference_, poses_, markerMutex_, poseMutex_, running_,
                 pcB, bl, kf, relativePoses, frames, crashed, NDEBUG, scene, views, envVars>>

T_LockNew ==
  /\ Alive /\ pcT = "lockNew"
  /\ markerMutex_ = "free"
  /\ markerMutex_' = "track"
  /\ pcT' = "insertNew"
  /\ UNCHANGED <<markers_, reference_, poses_, poseMutex_, running_, tl,
                 pcB, bl, kf, relativePoses, frames, crashed, NDEBUG, scene, views, envVars>>

\* markers_.insert of the new marker at its composed pose, under the lock;
\* a residual block on it is queued for the local refinement.
T_InsertNew ==
  /\ Alive /\ pcT = "insertNew"
  /\ \E m \in MarkerPoses :
       markers_' = IF tl.ids[tl.i] \in DOMAIN markers_
                   THEN markers_
                   ELSE (tl.ids[tl.i] :> m) @@ markers_
  /\ tl' = [tl EXCEPT !.blocks = @ \cup {tl.ids[tl.i]},
                      !.inserted = @ \cup {tl.ids[tl.i]},
                      !.i = @ + 1]
  /\ markerMutex_' = "free"
  /\ pcT' = "new"
  /\ UNCHANGED <<reference_, poses_, poseMutex_, running_,
                 pcB, bl, kf, relativePoses, frames, crashed, NDEBUG, scene, views, envVars>>

\* End of the loop: if (problem.NumResidualBlocks() > 0) lock and refine.
T_NewDone ==
  /\ Alive /\ pcT = "new"
  /\ tl.i > Len(tl.ids)
  /\ pcT' = IF tl.blocks # {} THEN "lockRefine" ELSE "lockPose"
  /\ UNCHANGED <<markers_, reference_, poses_, markerMutex_, poseMutex_, running_, tl,
                 pcB, bl, kf, relativePoses, frames, crashed, NDEBUG, scene, views, envVars>>

T_LockRefine ==
  /\ Alive /\ pcT = "lockRefine"
  /\ markerMutex_ = "free"
  /\ markerMutex_' = "track"
  /\ pcT' = "refine"
  /\ UNCHANGED <<markers_, reference_, poses_, poseMutex_, running_, tl,
                 pcB, bl, kf, relativePoses, frames, crashed, NDEBUG, scene, views, envVars>>

\* ceres::Solve of the local problem: the poses of the markers inserted by
\* this frame move, in markers_, under the lock.
T_Refine ==
  /\ Alive /\ pcT = "refine"
  /\ \E f \in [tl.blocks -> MarkerPoses] :
       markers_' = [id \in DOMAIN markers_ |->
                      IF id \in tl.blocks THEN f[id] ELSE markers_[id]]
  /\ markerMutex_' = "free"
  /\ pcT' = "lockPose"
  /\ UNCHANGED <<reference_, poses_, poseMutex_, running_, tl,
                 pcB, bl, kf, relativePoses, frames, crashed, NDEBUG, scene, views, envVars>>

T_LockPose ==
  /\ Alive /\ pcT = "lockPose"
  /\ poseMutex_ = "free"
  /\ poseMutex_' = "track"
  /\ pcT' = "novel"
  /\ UNCHANGED <<markers_, reference_, poses_, markerMutex_, running_, tl,
                 pcB, bl, kf, relativePoses, frames, crashed, NDEBUG, scene, views, envVars>>

\* The scan of the pose log that decides whether the pose is worth adding:
\* the markers of each visited pose are collected, a pose farther than
\* kMinDistance or turned by more than kMinAngle is skipped, the first pose
\* that is neither clears addPose and ends the scan.
RECURSIVE ScanPoses(_, _, _, _, _)
ScanPoses(log, k, t, q, allMarkers) ==
  IF k > Len(log)
  THEN [addPose |-> TRUE, allMarkers |-> allMarkers]
  ELSE LET pose == log[k]
           seen == allMarkers \cup {pose.observed[j][1] : j \in 1..Len(pose.observed)}
       IN  IF Distance(pose.t, t) > kMinDistance
           THEN ScanPoses(log, k + 1, t, q, seen)
           ELSE IF AngleBetween(pose.q, q) > kMinAngle
                THEN ScanPoses(log, k + 1, t, q, seen)
                ELSE [addPose |-> FALSE, allMarkers |-> seen]

\* addPose after the second loop: a marker not in allMarkers forces the add.
AddPose(log, t, q, ids) ==
  LET scan == ScanPoses(log, 1, t, q, {})
  IN  \/ scan.addPose
      \/ \E k \in 1..Len(ids) : ids[k] \notin scan.allMarkers

\* Pose(t, q, ids, corners): observed[i] = (ids[i], corners[i]).
MakePose(t, q, ids, corners) ==
  [t |-> t, q |-> q,
   observed |-> [k \in 1..Len(ids) |-> <<ids[k], corners[k]>>]]

\* The novelty check under poseMutex_; poses_.emplace_back runs the Pose
\* constructor, whose assert(ids.size() == corners.size()) aborts a build
\* with asserts.
T_Novel ==
  /\ Alive /\ pcT = "novel"
  /\ IF AddPose(poses_, tl.t, tl.q, tl.ids)
     THEN IF Len(tl.ids) # Len(tl.det) /\ ~NDEBUG
          THEN /\ crashed' = TRUE
               /\ UNCHANGED <<poses_, poseMutex_, pcT, tl>>
          ELSE /\ poses_' = Append(poses_, MakePose(tl.t, tl.q, tl.ids, tl.det))
               /\ poseMutex_' = "free"
               /\ pcT' = "notify"
               /\ tl' = [tl EXCEPT !.result = "tracked"]
               /\ UNCHANGED crashed
     ELSE /\ poseMutex_' = "free"
          /\ pcT' = "ret"
          /\ tl' = [tl EXCEPT !.result = "tracked"]
          /\ UNCHANGED <<poses_, crashed>>
  /\ UNCHANGED <<markers_, reference_, markerMutex_, running_,
                 pcB, bl, kf, relativePoses, frames, NDEBUG, scene, views, envVars>>

\* Mutant: the notification is left out.
T_Notify_Missing ==
  /\ Alive /\ pcT = "notify"
  /\ pcT' = "ret"
  /\ UNCHANGED <<markers_, reference_, poses_, markerMutex_, poseMutex_, running_, tl,
                 pcB, bl, kf, relativePoses, frames, crashed, NDEBUG, scene, views, envVars>>

\* cond_.notify_all() after lock.unlock(): a thread blocked in cond_.wait
\* becomes ready.
T_Notify ==
  /\ Alive /\ pcT = "notify"
  /\ pcB' = IF pcB = "blocked" THEN "woken" ELSE pcB
  /\ pcT' = "ret"
  /\ UNCHANGED <<markers_, reference_, poses_, markerMutex_, poseMutex_, running_, tl,
                 bl, kf, relativePoses, frames, crashed, NDEBUG, scene, views, envVars>>

\* Mutant: the filters are updated whatever TrackFrameImpl reports.
T_Return_AlwaysUpdate ==
  /\ Alive /\ pcT = "ret"
  /\ kf' = [kfr |-> kf.kfr + 1, kfp |-> kf.kfp + 1]
  /\ relativePoses' = relativePoses + 1
  /\ pcT' = "idle"
  /\ tl' = TLIdle
  /\ UNCHANGED <<markers_, reference_, poses_, markerMutex_, poseMutex_, running_,
                 pcB, bl, frames, crashed, NDEBUG, scene, views, envVars>>

\* ----------------------------------------------- Tracker::TrackFrame (2/2)
\* Back in TrackFrame: not tracked returns false; otherwise the relative pose
\* buffer is trimmed, both filters are updated once a relative pose exists,
\* and the new relative pose is pushed.
T_Return ==
  /\ Alive /\ pcT = "ret"
  /\ IF tl.result = "tracked"
     THEN LET n == IF relativePoses > kRelativePoses
                   THEN relativePoses - 1 ELSE relativePoses
          IN  /\ kf' = IF n > 0
                       THEN [kfr |-> kf.kfr + 1, kfp |-> kf.kfp + 1]
                       ELSE kf
              /\ relativePoses' = n + 1
     ELSE UNCHANGED <<kf, relativePoses>>
  /\ pcT' = "idle"
  /\ tl' = TLIdle
  /\ UNCHANGED <<markers_, reference_, poses_, markerMutex_, poseMutex_, running_,
                 pcB, bl, frames, crashed, NDEBUG, scene, views, envVars>>

\* ------------------------------------------- ArUcoTracker::~ArUcoTracker
\* running_ = false.
D_Destroy ==
  /\ Alive /\ pcT = "idle" /\ running_
  /\ running_' = FALSE
  /\ pcT' = "join"
  /\ UNCHANGED <<markers_, reference_, poses_, markerMutex_, poseMutex_, tl,
                 pcB, bl, kf, relativePoses, frames, crashed, NDEBUG, scene, views, envVars>>

\* thread_.join() returns once RunBundleAdjustment has returned.
D_Join ==
  /\ Alive /\ pcT = "join"
  /\ pcB = "exit"
  /\ pcT' = "destroyed"
  /\ UNCHANGED <<markers_, reference_, poses_, markerMutex_, poseMutex_, running_, tl,
                 pcB, bl, kf, relativePoses, frames, crashed, NDEBUG, scene, views, envVars>>

\* ------------------------------------- ArUcoTracker::RunBundleAdjustment
\* while (running_)
B_While ==
  /\ Alive /\ pcB = "while"
  /\ pcB' = IF running_ THEN "lock" ELSE "exit"
  /\ UNCHANGED <<markers_, reference_, poses_, markerMutex_, poseMutex_, running_,
                 pcT, tl, bl, kf, relativePoses, frames, crashed, NDEBUG, scene, views, envVars>>

\* std::unique_lock<std::mutex> lock(poseMutex_)
B_Lock ==
  /\ Alive /\ pcB = "lock"
  /\ poseMutex_ = "free"
  /\ poseMutex_' = "ba"
  /\ pcB' = "wait"
  /\ UNCHANGED <<markers_, reference_, poses_, markerMutex_, running_,
                 pcT, tl, bl, kf, relativePoses, frames, crashed, NDEBUG, scene, views, envVars>>

\* cond_.wait(lock, pred): with the lock held the predicate is evaluated;
\* if false the lock is released and the thread blocks, atomically.
B_Wait ==
  /\ Alive /\ pcB = "wait"
  /\ IF bl.processed < Len(poses_) \/ ~running_
     THEN /\ pcB' = "check"
          /\ UNCHANGED poseMutex_
     ELSE /\ pcB' = "blocked"
          /\ poseMutex_' = "free"
  /\ UNCHANGED <<markers_, reference_, poses_, markerMutex_, running_,
                 pcT, tl, bl, kf, relativePoses, frames, crashed, NDEBUG, scene, views, envVars>>

\* A spurious wakeup, which the implementation may but need not produce.
B_Spurious ==
  /\ Alive /\ pcB = "blocked"
  /\ pcB' = "woken"
  /\ UNCHANGED <<markers_, reference_, poses_, markerMutex_, poseMutex_, running_,
                 pcT, tl, bl, kf, relativePoses, frames, crashed, NDEBUG, scene, views, envVars>>

\* The woken thread reacquires the lock and evaluates the predicate again.
B_Wake ==
  /\ Alive /\ pcB = "woken"
  /\ poseMutex_ = "free"
  /\ poseMutex_' = "ba"
  /\ pcB' = "wait"
  /\ UNCHANGED <<markers_, reference_, poses_, markerMutex_, running_,
                 pcT, tl, bl, kf, relativePoses, frames, crashed, NDEBUG, scene, views, envVars>>

\* if (!running_) break; the lock's scope ends either way.
B_Check ==
  /\ Alive /\ pcB = "check"
  /\ poseMutex_' = "free"
  /\ pcB' = IF ~running_ THEN "exit" ELSE "lockM1"
  /\ UNCHANGED <<markers_, reference_, poses_, markerMutex_, running_,
                 pcT, tl, bl, kf, relativePoses, frames, crashed, NDEBUG, scene, views, envVars>>

\* ------------------------------------------- ArUcoTracker::BundleAdjust
B_LockM1 ==
  /\ Alive /\ pcB = "lockM1"
  /\ markerMutex_ = "free"
  /\ markerMutex_' = "ba"
  /\ pcB' = "snapM"
  /\ UNCHANGED <<markers_, reference_, poses_, poseMutex_, running_,
                 pcT, tl, bl, kf, relativePoses, frames, crashed, NDEBUG, scene, views, envVars>>

\* Mutant: the copy of the markers keeps markerMutex_ locked.
B_SnapMarkers_KeepLock ==
  /\ Alive /\ pcB = "snapM"
  /\ bl' = [bl EXCEPT !.markers = markers_]
  /\ pcB' = "lockP1"
  /\ UNCHANGED <<markers_, reference_, poses_, markerMutex_, poseMutex_, running_,
                 pcT, tl, kf, relativePoses, frames, crashed, NDEBUG, scene, views, envVars>>

\* markers = markers_, under markerMutex_.
B_SnapMarkers ==
  /\ Alive /\ pcB = "snapM"
  /\ bl' = [bl EXCEPT !.markers = markers_]
  /\ markerMutex_' = "free"
  /\ pcB' = "lockP1"
  /\ UNCHANGED <<markers_, reference_, poses_, poseMutex_, running_,
                 pcT, tl, kf, relativePoses, frames, crashed, NDEBUG, scene, views, envVars>>

B_LockP1 ==
  /\ Alive /\ pcB = "lockP1"
  /\ poseMutex_ = "free"
  /\ poseMutex_' = "ba"
  /\ pcB' = "snapP"
  /\ UNCHANGED <<markers_, reference_, poses_, markerMutex_, running_,
                 pcT, tl, bl, kf, relativePoses, frames, crashed, NDEBUG, scene, views, envVars>>

\* Ids observed by the poses of a log.
ObservedIds(log) ==
  UNION {{log[k].observed[j][1] : j \in 1..Len(log[k].observed)} : k \in 1..Len(log)}

\* The copy of the poses and the residual blocks, under poseMutex_.  Every
\* copied pose is a free parameter block of the solve, so of the copy only
\* its size is kept.  Each observation looks its marker up in the copy of the
\* markers and uses the iterator unchecked: a miss dereferences end(), which
\* faults there or, the bad address only being stored, in the solve.
B_SnapPoses ==
  /\ Alive /\ pcB = "snapP"
  /\ LET obs  == ObservedIds(poses_)
         miss == \E id \in obs : id \notin DOMAIN bl.markers
     IN  \/ /\ bl' = [bl EXCEPT
                        !.poses = Len(poses_),
                        !.blocks = obs \cap DOMAIN bl.markers,
                        !.miss = miss]
            /\ poseMutex_' = "free"
            /\ pcB' = "solve"
            /\ UNCHANGED crashed
         \/ /\ miss
            /\ crashed' = TRUE
            /\ UNCHANGED <<bl, poseMutex_, pcB>>
  /\ UNCHANGED <<markers_, reference_, poses_, markerMutex_, running_,
                 pcT, tl, kf, relativePoses, frames, NDEBUG, scene, views, envVars>>

\* Mutant: the reference marker's blocks are not set constant.
SolveMarkers_FreeReference(markers, blocks, ref) ==
  {m \in [DOMAIN markers -> MarkerPoses] :
     \A id \in DOMAIN markers : id \notin blocks => m[id] = markers[id]}

\* What ceres::Solve may leave in the copies: the reference marker's blocks
\* are constant, every other marker with a residual block and every pose may
\* move.
SolveMarkers(markers, blocks, ref) ==
  {m \in [DOMAIN markers -> MarkerPoses] :
     \A id \in DOMAIN markers :
        (id = ref \/ id \notin blocks) => m[id] = markers[id]}

SolvePoses(n) == [1..n -> views]

\* Mutant: the lock of the write-back is taken before the solve.
B_Solve_Locked ==
  /\ Alive /\ pcB = "solve"
  /\ markerMutex_ = "free"
  /\ markerMutex_' = "ba"
  /\ pcB' = "solve"
  /\ UNCHANGED <<markers_, reference_, poses_, poseMutex_, running_,
                 pcT, tl, bl, kf, relativePoses, frames, crashed, NDEBUG, scene, views, envVars>>

\* markers[reference_] set constant (operator[] on the copy), the quaternion
\* parametrization, ceres::Solve: no lock is taken.  The values the solve
\* leaves in the private copies are drawn where they are copied back.
B_Solve ==
  /\ Alive /\ pcB = "solve"
  /\ IF bl.miss
     THEN /\ crashed' = TRUE
          /\ UNCHANGED <<bl, pcB>>
     ELSE /\ bl' = [bl EXCEPT !.markers = IF reference_ \in DOMAIN bl.markers
                                          THEN bl.markers
                                          ELSE (reference_ :> Origin) @@ bl.markers]
          /\ pcB' = "lockM2"
          /\ UNCHANGED crashed
  /\ UNCHANGED <<markers_, reference_, poses_, markerMutex_, poseMutex_, running_,
                 pcT, tl, kf, relativePoses, frames, NDEBUG, scene, views, envVars>>


B_LockM2 ==
  /\ Alive /\ pcB = "lockM2"
  /\ markerMutex_ = "free"
  /\ markerMutex_' = "ba"
  /\ pcB' = "wbM"
  /\ UNCHANGED <<markers_, reference_, poses_, poseMutex_, running_,
                 pcT, tl, bl, kf, relativePoses, frames, crashed, NDEBUG, scene, views, envVars>>

\* Mutant: the copy replaces the marker map.
B_WriteMarkers_ReplaceAll ==
  /\ Alive /\ pcB = "wbM"
  /\ \E m \in SolveMarkers(bl.markers, bl.blocks, reference_) : markers_' = m
  /\ markerMutex_' = "free"
  /\ pcB' = "lockP2"
  /\ UNCHANGED <<reference_, poses_, poseMutex_, running_,
                 pcT, tl, bl, kf, relativePoses, frames, crashed, NDEBUG, scene, views, envVars>>

\* Copy back the optimized markers: markers_[id].q, .t for each id of the copy.
B_WriteMarkers ==
  /\ Alive /\ pcB = "wbM"
  /\ \E m \in SolveMarkers(bl.markers, bl.blocks, reference_) :
       markers_' = [id \in DOMAIN markers_ \cup DOMAIN m |->
                      IF id \in DOMAIN m THEN m[id] ELSE markers_[id]]
  /\ markerMutex_' = "free"
  /\ pcB' = "lockP2"
  /\ UNCHANGED <<reference_, poses_, poseMutex_, running_,
                 pcT, tl, bl, kf, relativePoses, frames, crashed, NDEBUG, scene, views, envVars>>

B_LockP2 ==
  /\ Alive /\ pcB = "lockP2"
  /\ poseMutex_ = "free"
  /\ poseMutex_' = "ba"
  /\ pcB' = "wbP"
  /\ UNCHANGED <<markers_, reference_, poses_, markerMutex_, running_,
                 pcT, tl, bl, kf, relativePoses, frames, crashed, NDEBUG, scene, views, envVars>>

\* Copy the optimized poses onto the first poses.size() entries of the log;
\* return poses.size(), which RunBundleAdjustment stores in processed.
B_WritePoses ==
  /\ Alive /\ pcB = "wbP"
  /\ \E ps \in SolvePoses(bl.poses) :
       poses_' = [k \in 1..Len(poses_) |->
                    IF k <= bl.poses
                    THEN [poses_[k] EXCEPT !.q = ps[k].q, !.t = ps[k].t]
                    ELSE poses_[k]]
  /\ poseMutex_' = "free"
  /\ bl' = [BLInit EXCEPT !.processed = bl.poses]
  /\ pcB' = "while"
  /\ UNCHANGED <<markers_, reference_, markerMutex_, running_,
                 pcT, tl, kf, relativePoses, frames, crashed, NDEBUG, scene, views, envVars>>


\* ------------------------------------------- EnvironmentBuilder::AddFrames
\* The batches a session hands to AddFrames.
SessionBatches(sess) ==
  {b \in Batches :
     /\ Len(b) \in sess.sizes
     /\ \A i \in 1..Len(b) :
          /\ b[i].time \in sess.times /\ b[i].per \in sess.pers
          /\ b[i].nkp \in sess.nkps /\ b[i].pts \in sess.layouts}

\* The exposure list after the first block of AddFrames: recorded from the
\* batch when none is recorded yet.
RecordExposures(exposures, batch) ==
  IF exposures = <<>>
  THEN [i \in 1..Len(batch) |-> batch[i].time]
  ELSE exposures

\* One of the two asserts on a recorded exposure list fails.
ExposureMismatch(exposures, batch) ==
  /\ exposures # <<>>
  /\ \/ Len(exposures) # Len(batch)
     \/ \E i \in 1..Len(batch) :
          ~(Abs(batch[i].time - exposures[i]) < kExposureTolerance)

\* Per-frame processing of frame i: the blur check when a detector exists,
\* then the keypoint count.
FrameError(checkBlur, f) ==
  IF checkBlur /\ f.per < kMinBlurThreshold THEN "BLURRY"
  ELSE IF f.nkp < kMinFeatures THEN "NOT_ENOUGH_FEATURES"
  ELSE "OK"

\* The exception thrown by the per-frame loop: that of the first bad frame.
RECURSIVE FramesError(_, _, _)
FramesError(checkBlur, batch, i) ==
  IF i > Len(batch) THEN "OK"
  ELSE IF FrameError(checkBlur, batch[i]) # "OK" THEN FrameError(checkBlur, batch[i])
  ELSE FramesError(checkBlur, batch, i + 1)

\* A uniformly black frame: the blur detector finds no edge (per = 0) and ORB
\* no keypoint.
Black(f) == f.per = 0 /\ f.nkp = 0

\* Whether the batch holds a black frame, and whether that frame is the first
\* one the per-frame loop rejects.
BlackIn(checkBlur, batch) ==
  IF ~\E i \in 1..Len(batch) : Black(batch[i]) THEN "none"
  ELSE LET bad   == {i \in 1..Len(batch) : FrameError(checkBlur, batch[i]) # "OK"}
           first == CHOOSE i \in bad : \A j \in bad : i <= j
       IN  IF Black(batch[first]) THEN "first" ELSE "later"

\* frames.emplace_back(index_ + i, i, ...)
NewFrames(index, batch) ==
  [i \in 1..Len(batch) |->
     [index |-> index + (i - 1), level |-> i - 1, pts |-> batch[i].pts,
      optimized |-> FALSE, q |-> "initial"]]

\* graph[a].emplace_back(b)
AddEdge(g, a, b) ==
  IF a \in DOMAIN g THEN [g EXCEPT ![a] = Append(@, b)] ELSE (a :> <<b>>) @@ g

\* The end of Match: the graph of the surviving matches, an edge in each
\* direction per match.
RECURSIVE MatchGraphOf(_, _, _, _)
MatchGraphOf(train, query, robustMatches, k) ==
  IF k = 0 THEN <<>>
  ELSE LET m == robustMatches[k]
           g == MatchGraphOf(train, query, robustMatches, k - 1)
       IN  AddEdge(AddEdge(g, <<query, m.queryIdx>>, <<train, m.trainIdx>>),
                   <<train, m.trainIdx>>, <<query, m.queryIdx>>)

\* Mutant: only the edge from the query node to the train node is added.
RECURSIVE OneWayGraphOf(_, _, _, _)
OneWayGraphOf(train, query, robustMatches, k) ==
  IF k = 0 THEN <<>>
  ELSE LET m == robustMatches[k]
       IN  AddEdge(OneWayGraphOf(train, query, robustMatches, k - 1),
                   <<query, m.queryIdx>>, <<train, m.trainIdx>>)

Match_OneWay(train, query, robustMatches) ==
  OneWayGraphOf(train, query, robustMatches, Len(robustMatches))

\* Mutant: the nodes of the query frame are keyed by the index after its own.
Match_ShiftedQuery(train, query, robustMatches) ==
  MatchGraphOf(train, query + 1, robustMatches, Len(robustMatches))

Match(train, query, robustMatches) ==
  MatchGraphOf(train, query, robustMatches, Len(robustMatches))

\* std::copy(node.second ..., back_inserter(graph_[node.first])) for one graph.
MergeGraph(G, g) ==
  [n \in DOMAIN G \cup DOMAIN g |->
     (IF n \in DOMAIN G THEN G[n] ELSE <<>>) \o (IF n \in DOMAIN g THEN g[n] ELSE <<>>)]

RECURSIVE MergeGraphs(_, _, _)
MergeGraphs(G, graphs, k) ==
  IF k > Len(graphs) THEN G
  ELSE MergeGraphs(MergeGraph(G, graphs[k]), graphs, k + 1)

\* The pairs Match is called on: the frames of the batch among themselves
\* (train i, query j, i < j), then each frame of the batch against each
\* accumulated frame, the latest first (train accumulated, query new).
PairwisePairs(new) ==
  {p \in (1..Len(new)) \X (1..Len(new)) : p[1] < p[2]}

RECURSIVE PairwiseGraphs(_, _, _, _)
PairwiseGraphs(new, oracle, i, j) ==
  IF i > Len(new) THEN <<>>
  ELSE IF j > Len(new) THEN PairwiseGraphs(new, oracle, i + 1, i + 2)
  ELSE <<Match(new[i].index, new[j].index, oracle[<<new[i].index, new[j].index>>])>>
         \o PairwiseGraphs(new, oracle, i, j + 1)

RECURSIVE GlobalGraphs(_, _, _, _, _)
GlobalGraphs(old, new, oracle, i, k) ==
  IF i > Len(new) THEN <<>>
  ELSE IF k < 1 THEN GlobalGraphs(old, new, oracle, i + 1, Len(old))
  ELSE LET g == Match(old[k].index, new[i].index, oracle[<<old[k].index, new[i].index>>])
       IN  (IF g = <<>> THEN <<>> ELSE <<g>>) \o GlobalGraphs(old, new, oracle, i, k - 1)

\* The pairs of (train index, query index) of one AddFrames call.
MatchedPairs(nOld, index, n) ==
  {p \in (0..(index + n - 1)) \X (index..(index + n - 1)) :
     /\ p[1] < p[2]
     /\ p[1] < nOld \/ p[1] >= index}

\* Mutant: the minimum is demanded from the first frames on.
RequiredPairs_NoBootstrap(nFrames) == kMinPairs

\* The required number of global pairings.
RequiredPairs(nFrames) == IF nFrames < kBootstrapFrames THEN 0 ELSE kMinPairs

\* What the last AddFrames call was given and how far it got: the batch
\* disagreed with the recorded exposures, it held a black frame, the check of
\* the global matches was reached with so many non-empty matches.
CallOf(mismatch, black, reached, global) ==
  [mismatch |-> mismatch, black |-> black, reached |-> reached, global |-> global]

\* AddFrames(rawFrames), whole: the exposure list, the per-frame checks, the
\* pairwise and the global matching, the commit.
AddFrames ==
  /\ ~aborted
  /\ pcC = "idle"
  /\ index_ < session.limit
  /\ \E batch \in SessionBatches(session) :
       LET exposures == RecordExposures(exposures_, batch)
           ferr      == FramesError(checkBlur_, batch, 1)
           new       == NewFrames(index_, batch)
           mismatch  == ExposureMismatch(exposures_, batch)
           black     == BlackIn(checkBlur_, batch)
       IN  IF mismatch /\ ~NDEBUG
           THEN /\ aborted' = TRUE
                /\ lastError' = "ASSERT"
                /\ call' = CallOf(mismatch, black, FALSE, 0)
                /\ UNCHANGED <<exposures_, frames_, graph_, index_>>
           ELSE IF ferr # "OK"
           THEN /\ lastError' = ferr
                /\ exposures_' = exposures
                /\ call' = CallOf(mismatch, black, FALSE, 0)
                /\ UNCHANGED <<frames_, graph_, index_, aborted>>
           ELSE \E oracle \in [MatchedPairs(Len(frames_), index_, Len(batch)) -> session.lists] :
                  LET matches == PairwiseGraphs(new, oracle, 1, 2)
                      global  == GlobalGraphs(frames_, new, oracle, 1, Len(frames_))
                  IN  IF \E k \in 1..Len(matches) : matches[k] = <<>>
                      THEN /\ lastError' = "NO_PAIRWISE_MATCHES"
                           /\ exposures_' = exposures
                           /\ call' = CallOf(mismatch, black, FALSE, 0)
                           /\ UNCHANGED <<frames_, graph_, index_, aborted>>
                      ELSE IF Len(frames_) # 0 /\ Len(global) <= RequiredPairs(Len(frames_))
                      THEN /\ lastError' = "NO_GLOBAL_MATCHES"
                           /\ exposures_' = exposures
                           /\ call' = CallOf(mismatch, black, TRUE, Len(global))
                           /\ UNCHANGED <<frames_, graph_, index_, aborted>>
                      ELSE /\ lastError' = "OK"
                           /\ exposures_' = exposures
                           /\ frames_' = frames_ \o new
                           /\ graph_' = MergeGraphs(graph_, matches \o global, 1)
                           /\ index_' = index_ + Len(new)
                           /\ call' = CallOf(mismatch, black, TRUE, Len(global))
                           /\ UNCHANGED aborted
  /\ UNCHANGED <<checkBlur_, baMethod_, session, groups_, pcC, events, composites, composited,
                 trackerVars, NDEBUG, scene, views, pureVars>>

EnvNext == AddFrames

\* ------------------------------------------- EnvironmentBuilder::Composite
\* Mutant: only the first neighbour of a node is followed.
Neighbours_FirstOnly(g, node) ==
  IF node \in DOMAIN g /\ g[node] # <<>> THEN <<g[node][1]>> ELSE <<>>

\* graph_[node]: the neighbours of a node (none for a node that is no key).
Neighbours(g, node) == IF node \in DOMAIN g THEN g[node] ELSE <<>>

\* The dfs lambda of GroupMatches on one node: st holds the visited set and
\* the group being filled.
RECURSIVE Dfs(_, _, _, _)
RECURSIVE DfsNext(_, _, _, _, _)
Dfs(g, fr, node, st) ==
  IF node \in st.visited THEN st
  ELSE DfsNext(g, fr, Neighbours(g, node), 1,
               [visited |-> st.visited \cup {node},
                group   |-> Append(st.group,
                                   [frame |-> node[1], pt |-> fr[node[1] + 1].pts[node[2] + 1]])])

DfsNext(g, fr, nexts, k, st) ==
  IF k > Len(nexts) THEN st
  ELSE DfsNext(g, fr, nexts, k + 1, Dfs(g, fr, nexts[k], st))

\* The order in which the keys of graph_ are visited (that of the hash table,
\* here by frame, then keypoint).
FirstNode(nodes) ==
  CHOOSE n \in nodes : \A m \in nodes : n[1] < m[1] \/ (n[1] = m[1] /\ n[2] <= m[2])

\* The loop over graph_: a new group per unvisited key.
RECURSIVE Components(_, _, _, _)
Components(g, fr, todo, visited) ==
  IF todo = {} THEN <<>>
  ELSE LET node == FirstNode(todo)
       IN  IF node \in visited THEN Components(g, fr, todo \ {node}, visited)
           ELSE LET st == Dfs(g, fr, node, [visited |-> visited, group |-> <<>>])
                IN  <<st.group>> \o Components(g, fr, todo \ {node}, st.visited)

\* f[node.first]: the positions of the frame's observations in a group.
PointsOf(group, frame) ==
  SelectSeq([k \in 1..Len(group) |-> group[k]], LAMBDA o : o.frame = frame)

RECURSIVE SumOf(_, _, _)
SumOf(obs, coord, k) ==
  IF k = 0 THEN 0 ELSE SumOf(obs, coord, k - 1) + obs[k].pt[coord]

RECURSIVE SumSquares(_, _, _)
SumSquares(obs, coord, k) ==
  IF k = 0 THEN 0 ELSE SumSquares(obs, coord, k - 1) + obs[k].pt[coord] * obs[k].pt[coord]

\* mean and var of the observations of one frame.
MeanOf(obs) ==
  <<SumOf(obs, 1, Len(obs)) \div Len(obs), SumOf(obs, 2, Len(obs)) \div Len(obs)>>

VarOf(obs) ==
  <<SumSquares(obs, 1, Len(obs)) \div Len(obs) - MeanOf(obs)[1] * MeanOf(obs)[1],
    SumSquares(obs, 2, Len(obs)) \div Len(obs) - MeanOf(obs)[2] * MeanOf(obs)[2]>>

\* var.norm() > kMaxGroupStd * kMaxGroupStd, both sides squared.
TooScattered(obs) ==
  VarOf(obs)[1] * VarOf(obs)[1] + VarOf(obs)[2] * VarOf(obs)[2]
    > (kMaxGroupStd * kMaxGroupStd) * (kMaxGroupStd * kMaxGroupStd)

\* The frames of a group, in increasing order.
RECURSIVE SortedFrames(_)
SortedFrames(fs) ==
  IF fs = {} THEN <<>>
  ELSE LET f == CHOOSE x \in fs : \A y \in fs : x <= y
       IN  <<f>> \o SortedFrames(fs \ {f})

\* Mutant: the duplicates of a frame are all kept.
RepairGroup_KeepDuplicates(group) == group

\* One group after the robustification: an observation per frame, the mean of
\* the frame's observations when there are several.
RepairGroup(group) ==
  LET fs == SortedFrames({group[k].frame : k \in 1..Len(group)})
  IN  [k \in 1..Len(fs) |->
         LET obs == PointsOf(group, fs[k])
         IN  IF Len(obs) = 1 THEN [frame |-> fs[k], pt |-> obs[1].pt]
             ELSE [frame |-> fs[k], pt |-> MeanOf(obs)]]

\* keep: no frame of the group has observations that are too scattered.
KeepGroup(group) ==
  \A f \in {group[k].frame : k \in 1..Len(group)} :
     Len(PointsOf(group, f)) = 1 \/ ~TooScattered(PointsOf(group, f))

\* The second loop of GroupMatches over all of groups_.
RECURSIVE RepairGroups(_, _)
RepairGroups(groups, k) ==
  IF k > Len(groups) THEN <<>>
  ELSE (IF KeepGroup(groups[k]) THEN <<RepairGroup(groups[k])>> ELSE <<>>)
         \o RepairGroups(groups, k + 1)

\* The frames an Optimize method marks as optimized: with RAYS and REPROJ the
\* frames of the groups for each pair of observations of different frames,
\* with POINTS and VECTORS the frame of every observation.
MarkedFrames(method, groups) ==
  UNION {{groups[i][a].frame : a \in
            {a \in 1..Len(groups[i]) :
               \/ method \in {"POINTS", "VECTORS"}
               \/ \E b \in 1..Len(groups[i]) : groups[i][b].frame # groups[i][a].frame}}
         : i \in 1..Len(groups)}

\* Mutant: the frames of a level are projected whether optimized or not.
ProjectedFrames_IgnoreOptimized(fr, level) ==
  {fr[k].index : k \in {k \in 1..Len(fr) : fr[k].level = level}}

\* The frames Project accumulates into the image of a level.
ProjectedFrames(fr, level) ==
  {fr[k].index : k \in {k \in 1..Len(fr) : fr[k].optimized /\ fr[k].level = level}}

\* Composite(onProgress) is entered: GroupMatches finds the components.
C_GroupMatches ==
  /\ ~aborted /\ pcC = "idle"
  /\ composites < session.composites
  /\ composites' = composites + 1
  /\ events' = <<>>
  /\ groups_' = groups_ \o Components(graph_, frames_, DOMAIN graph_, {})
  /\ pcC' = "repair"
  /\ UNCHANGED <<exposures_, frames_, graph_, index_, checkBlur_, baMethod_, session, lastError,
                 aborted, call, composited, trackerVars, NDEBUG, scene, views, pureVars>>

\* GroupMatches removes or repairs the groups with several observations of a
\* frame, and returns.
C_Repair ==
  /\ ~aborted /\ pcC = "repair"
  /\ groups_' = RepairGroups(groups_, 1)
  /\ events' = Append(events, "GroupMatches")
  /\ pcC' = "progress1"
  /\ UNCHANGED <<exposures_, frames_, graph_, index_, checkBlur_, baMethod_, session, lastError,
                 aborted, call, composites, composited, trackerVars, NDEBUG, scene, views, pureVars>>

\* Mutant: the first notification is not made.
C_Progress1_Skipped ==
  /\ ~aborted /\ pcC = "progress1"
  /\ pcC' = "optimize"
  /\ UNCHANGED <<exposures_, frames_, graph_, index_, checkBlur_, baMethod_, session, lastError,
                 aborted, call, groups_, events, composites, composited,
                 trackerVars, NDEBUG, scene, views, pureVars>>

C_Progress1 ==
  /\ ~aborted /\ pcC = "progress1"
  /\ events' = Append(events, "Match Graph Optimization")
  /\ pcC' = "optimize"
  /\ UNCHANGED <<exposures_, frames_, graph_, index_, checkBlur_, baMethod_, session, lastError,
                 aborted, call, groups_, composites, composited,
                 trackerVars, NDEBUG, scene, views, pureVars>>

\* The Optimize method of baMethod_: the frames with residuals are marked
\* optimized and their orientation is left as the solve wrote it.
C_Optimize ==
  /\ ~aborted /\ pcC = "optimize"
  /\ frames_' = [k \in 1..Len(frames_) |->
                   IF frames_[k].index \in MarkedFrames(baMethod_, groups_)
                   THEN [frames_[k] EXCEPT !.optimized = TRUE, !.q = "solved"]
                   ELSE frames_[k]]
  /\ events' = Append(events, "Optimize")
  /\ pcC' = "progress2"
  /\ UNCHANGED <<exposures_, graph_, index_, checkBlur_, baMethod_, session, lastError,
                 aborted, call, groups_, composites, composited,
                 trackerVars, NDEBUG, scene, views, pureVars>>

C_Progress2 ==
  /\ ~aborted /\ pcC = "progress2"
  /\ events' = Append(events, "Bundle Adjustment")
  /\ pcC' = "project"
  /\ UNCHANGED <<exposures_, frames_, graph_, index_, checkBlur_, baMethod_, session, lastError,
                 aborted, call, groups_, composites, composited,
                 trackerVars, NDEBUG, scene, views, pureVars>>

\* Project(): an image per recorded exposure from the optimized frames of its
\* level; levels[frame.level] of a frame beyond the recorded exposures is
\* outside the vector, the process may fault there.
C_Project ==
  /\ ~aborted /\ pcC = "project"
  /\ \E fault \in IF \E k \in 1..Len(frames_) :
                        frames_[k].optimized /\ frames_[k].level >= Len(exposures_)
                   THEN BOOLEAN ELSE {FALSE} :
       IF fault
       THEN /\ aborted' = TRUE
            /\ UNCHANGED <<composited, events, pcC>>
       ELSE /\ composited' = [l \in 1..Len(exposures_) |->
                                [time |-> exposures_[l],
                                 frames |-> ProjectedFrames(frames_, l - 1)]]
            /\ events' = Append(events, "Project")
            /\ pcC' = "progress3"
            /\ UNCHANGED aborted
  /\ UNCHANGED <<exposures_, frames_, graph_, index_, checkBlur_, baMethod_, session, lastError,
                 call, groups_, composites, trackerVars, NDEBUG, scene, views, pureVars>>

C_Progress3 ==
  /\ ~aborted /\ pcC = "progress3"
  /\ events' = Append(events, "Compositing")
  /\ pcC' = "return"
  /\ UNCHANGED <<exposures_, frames_, graph_, index_, checkBlur_, baMethod_, session, lastError,
                 aborted, call, groups_, composites, composited,
                 trackerVars, NDEBUG, scene, views, pureVars>>

\* return result
C_Return ==
  /\ ~aborted /\ pcC = "return"
  /\ pcC' = "idle"
  /\ UNCHANGED <<exposures_, frames_, graph_, index_, checkBlur_, baMethod_, session, lastError,
                 aborted, call, groups_, events, composites, composited,
                 trackerVars, NDEBUG, scene, views, pureVars>>

Composite ==
  \/ C_GroupMatches \/ C_Repair \/ C_Progress1 \/ C_Optimize \/ C_Progress2
  \/ C_Project \/ C_Progress3 \/ C_Return

CompositeNext == AddFrames \/ Composite


\* ------------------------------ EnvironmentBuilder::Match, the Hamming gate
Min(a, b) == IF a < b THEN a ELSE b

\* n matches of distance d.
Repeat(d, n) == [k \in 1..n |-> d]

\* The matches of a pair with cnt[d] matches of each distance d, in the order
\* of decreasing distance.
RECURSIVE MatchesOf(_, _)
MatchesOf(cnt, ds) ==
  IF ds = {} THEN <<>>
  ELSE LET d == CHOOSE x \in ds : \A y \in ds : y <= x
       IN  Repeat(d, cnt[d]) \o MatchesOf(cnt, ds \ {d})

\* std::sort by increasing distance: position k holds the distance that has
\* fewer than k matches below it and at least k matches at or below it.
SortMatches(matches) ==
  [k \in 1..Len(matches) |->
     CHOOSE d \in {matches[i] : i \in 1..Len(matches)} :
        /\ Cardinality({i \in 1..Len(matches) : matches[i] < d}) < k
        /\ k <= Cardinality({i \in 1..Len(matches) : matches[i] <= d})]

\* std::min(kMaxHammingDistance, matches[0].distance * 5) on the sorted matches.
MaxHamming(sorted) == Min(kMaxHammingDistance, sorted[1] * kBestDistanceFactor)

\* The predicate of remove_if: the match is erased.
Removed(d, maxHamming) == d < maxHamming

\* matches.erase(std::remove_if(...)): the matches that are not removed.
HammingGate(sorted) ==
  SelectSeq(sorted, LAMBDA d : ~Removed(d, MaxHamming(sorted)))

\* The block of Match from bfMatcher_.match to the second size check.
H_Match ==
  /\ hamming.pc = "matched"
  /\ IF Len(hamming.matches) < kMinMatches
     THEN hamming' = [hamming EXCEPT !.pc = "done", !.empty = TRUE]
     ELSE LET survivors == HammingGate(SortMatches(hamming.matches))
          IN  hamming' = [hamming EXCEPT !.pc = "done", !.gated = TRUE,
                                         !.survivors = survivors,
                                         !.empty = Len(survivors) < kMinMatches]
  /\ UNCHANGED <<trackerVars, NDEBUG, scene, views, moments, blurd, sampler, ekf, builderVars>>

\* bfMatcher_ has returned the matches of a pair of frames.
HammingInit ==
  /\ TrackerInit
  /\ EnvInit
  /\ NDEBUG \in BOOLEAN
  /\ scene = Detections
  /\ views = CamPoses
  /\ moments = MomentsIdle
  /\ blurd = BlurIdle
  /\ sampler = SamplerIdle
  /\ ekf = EkfIdle
  /\ \E cnt \in [Distances -> MatchCounts] :
       hamming = [HammingIdle EXCEPT !.pc = "matched", !.matches = MatchesOf(cnt, Distances)]

HammingSpec == HammingInit /\ [][H_Match]_vars

\* ------------------------------------------------------------ Moments<I, J>
\* power<N>(x)
RECURSIVE Power(_, _)
Power(N, x) ==
  IF N = 0 THEN 1
  ELSE IF N = 1 THEN x
  ELSE IF N = 2 THEN x * x
  ELSE LET half  == Power(N \div 2, x)
           half2 == half * half
       IN  IF N % 2 = 1 THEN half2 * x ELSE half2

\* row[x] of row y, both counted from 0.
Pixel(image, y, x) == image[y + 1][x + 1]

\* The running sum of row y after column x.
RECURSIVE RowSum(_, _, _, _, _)
RowSum(image, I, J, y, x) ==
  IF x < 0 THEN 0
  ELSE RowSum(image, I, J, y, x - 1) + Power(I, y) * Power(J, x) * Pixel(image, y, x)

\* s_[id1] as the constructor fills it: the first row from the running sum,
\* every other row from the entry above (s_[id0]) plus the running sum.
RECURSIVE TableAt(_, _, _, _, _)
TableAt(image, I, J, y, x) ==
  IF y = 0 THEN RowSum(image, I, J, 0, x)
  ELSE TableAt(image, I, J, y - 1, x) + RowSum(image, I, J, y, x)

\* The table of the constructor, s_[k] at position k + 1.
MomentsTable(image, I, J) ==
  LET rows == Len(image)
      cols == Len(image[1])
  IN  [k \in 1..(rows * cols) |-> TableAt(image, I, J, (k - 1) \div cols, (k - 1) % cols)]

\* Region(y0, x0, y1, x1) with its two asserts, within the image.
Regions(rows, cols) ==
  {r \in [y0 : 0..(rows - 1), x0 : 0..(cols - 1), y1 : 0..(rows - 1), x1 : 0..(cols - 1)] :
     r.x0 <= r.x1 /\ r.y0 <= r.y1}

\* s_[y * cols + x], or 0 when the row or the column is before the image.
TableEntry(s, cols, y, x) == IF y < 0 \/ x < 0 THEN 0 ELSE s[y * cols + x + 1]

\* Mutant: the corner above and left of the region is not added back.
MomentsQuery_NoCorner(s, cols, r) ==
  TableEntry(s, cols, r.y1, r.x1) - TableEntry(s, cols, r.y1, r.x0 - 1)
    - TableEntry(s, cols, r.y0 - 1, r.x1)

\* operator()(const Region &r)
MomentsQuery(s, cols, r) ==
  TableEntry(s, cols, r.y1, r.x1) - TableEntry(s, cols, r.y1, r.x0 - 1)
    + TableEntry(s, cols, r.y0 - 1, r.x0 - 1) - TableEntry(s, cols, r.y0 - 1, r.x1)

\* Moments(const cv::Mat &image)
M_Construct ==
  /\ moments.pc = "image"
  /\ moments' = [moments EXCEPT !.pc = "table",
                                !.rows = Len(moments.image),
                                !.cols = Len(moments.image[1]),
                                !.s_ = MomentsTable(moments.image, moments.I, moments.J)]
  /\ UNCHANGED <<trackerVars, NDEBUG, scene, views, hamming, blurd, sampler, ekf, builderVars>>

\* A query of the table on a region of the image.
M_Query ==
  /\ moments.pc = "table"
  /\ \E r \in Regions(moments.rows, moments.cols) :
       moments' = [moments EXCEPT !.pc = "query", !.r = r,
                                  !.value = MomentsQuery(moments.s_, moments.cols, r)]
  /\ UNCHANGED <<trackerVars, NDEBUG, scene, views, hamming, blurd, sampler, ekf, builderVars>>

\* An 8-bit image is given and the orders of the moment are chosen.
MomentsInit ==
  /\ TrackerInit
  /\ EnvInit
  /\ NDEBUG \in BOOLEAN
  /\ scene = Detections
  /\ views = CamPoses
  /\ hamming = HammingIdle
  /\ blurd = BlurIdle
  /\ sampler = SamplerIdle
  /\ ekf = EkfIdle
  /\ \E image \in Images, I \in Orders, J \in Orders :
       moments = [MomentsIdle EXCEPT !.pc = "image", !.I = I, !.J = J, !.image = image]

MomentsNext == M_Construct \/ M_Query

MomentsSpec == MomentsInit /\ [][MomentsNext]_vars

\* --------------------------------------------------------- BlurDetector
\* The local maxima <<E1, E2, E3>> of a window on the three pyramid levels:
\* no edge, a Dirac or A-step structure, a sharp and a blurred roof, a G-step,
\* and an edge that fits none of the rules.
FlatWindow == <<20, 20, 20>>
DiracWindow == <<60, 40, 20>>
RoofWindow == <<40, 50, 60>>
BlurredRoofWindow == <<20, 40, 60>>
GStepWindow == <<40, 60, 50>>
OtherEdgeWindow == <<60, 60, 60>>
WindowClasses == <<FlatWindow, DiracWindow, RoofWindow, BlurredRoofWindow, GStepWindow,
                   OtherEdgeWindow>>
\* How many windows of one class a frame has.
WindowCounts == {0, 1, 99}

\* The windows of a frame with cnt[c] windows of class c, class after class.
RECURSIVE WindowsBefore(_, _)
WindowsBefore(cnt, c) == IF c = 1 THEN 0 ELSE WindowsBefore(cnt, c - 1) + cnt[c - 1]
WindowsOf(cnt) ==
  [k \in 1..WindowsBefore(cnt, Len(WindowClasses) + 1) |->
     WindowClasses[CHOOSE c \in 1..Len(WindowClasses) :
                     WindowsBefore(cnt, c) < k /\ k <= WindowsBefore(cnt, c + 1)]]

\* Rule 1: the window holds an edge.
IsEdge(w) == ~(w[1] < threshold_ /\ w[2] < threshold_ /\ w[3] < threshold_)
\* Rule 2: Dirac or A-step.
IsDiracOrAStep(w) == w[1] > w[2] /\ w[2] > w[3]
\* Rules 3, 4: roof or G-step.
IsRoofOrGStep(w) == (w[1] < w[2] /\ w[2] < w[3]) \/ (w[1] < w[2] /\ w[3] < w[2])

\* The counters after the loop over the windows.
CountEdges(windows) ==
  LET edges == {k \in 1..Len(windows) : IsEdge(windows[k])}
      da    == {k \in edges : IsDiracOrAStep(windows[k])}
      rg    == {k \in edges \ da : IsRoofOrGStep(windows[k])}
      brg   == {k \in rg : windows[k][1] < threshold_}
  IN  [Nedge |-> Cardinality(edges), Nda |-> Cardinality(da),
       Nrg |-> Cardinality(rg), Nbrg |-> Cardinality(brg)]

\* The pair returned by the detector, in thousandths rounded towards zero.
BlurFeatures(n) ==
  IF n.Nedge = 0 \/ n.Nrg = 0 THEN [per |-> 0, blur |-> 0]
  ELSE [per |-> (n.Nda * 1000) \div n.Nedge, blur |-> (n.Nbrg * 1000) \div n.Nrg]

\* BlurDetector::operator()
BD_Detect ==
  /\ blurd.pc = "gray"
  /\ LET n == CountEdges(blurd.windows)
         f == BlurFeatures(n)
     IN  blurd' = [blurd EXCEPT !.pc = "detected", !.Nedge = n.Nedge, !.Nda = n.Nda,
                                !.Nrg = n.Nrg, !.Nbrg = n.Nbrg, !.per = f.per, !.blur = f.blur]
  /\ UNCHANGED <<trackerVars, NDEBUG, scene, views, hamming, moments, sampler, ekf, builderVars>>

\* The blur check of AddFrames on the pair returned by the detector.
BD_Check ==
  /\ blurd.pc = "detected"
  /\ blurd' = [blurd EXCEPT !.pc = "checked",
                            !.error = IF blurd.per < kMinBlurThreshold THEN "BLURRY" ELSE "OK"]
  /\ UNCHANGED <<trackerVars, NDEBUG, scene, views, hamming, moments, sampler, ekf, builderVars>>

\* A grayscale frame is handed to the blur detector of the builder.
BlurInit ==
  /\ TrackerInit
  /\ EnvInit
  /\ NDEBUG \in BOOLEAN
  /\ scene = Detections
  /\ views = CamPoses
  /\ hamming = HammingIdle
  /\ moments = MomentsIdle
  /\ sampler = SamplerIdle
  /\ ekf = EkfIdle
  /\ checkBlur_ = TRUE
  /\ \E cnt \in [1..Len(WindowClasses) -> WindowCounts] :
       blurd = [BlurIdle EXCEPT !.pc = "gray", !.windows = WindowsOf(cnt)]

BlurNext == BD_Detect \/ BD_Check

BlurSpec == BlurInit /\ [][BlurNext]_vars

\* ------------------------------------------------------ light probe samplers
\* The sampler subclasses, and the two revisions of LightProbeSampler.cpp of
\* the repository: ar/ ("ar") and MobileAR/ar/ ("app").
SamplerKinds == {"median", "variance"}
SamplerBases == {"ar", "app"}
\* The luminance maps, as the 8-bit pixels the Moments tables read.
LuminanceValues == {0, 1, 5}
SamplerShapes == {<<1, 1>>, <<1, 2>>, <<2, 1>>, <<2, 2>>, <<3, 1>>, <<4, 1>>, <<1, 4>>, <<5, 1>>}
Luminances == UNION {[1..sh[1] -> [1..sh[2] -> LuminanceValues]] : sh \in SamplerShapes}
\* What a read past the end of a table returns.
Garbage == {0, 1}

\* static_cast<int>(a / b) and a / b on integers: the quotient rounded towards zero.
TruncDiv(a, b) ==
  IF (a < 0) = (b < 0) THEN Abs(a) \div Abs(b) ELSE 0 - (Abs(a) \div Abs(b))

MaxOf(a, b) == IF a < b THEN b ELSE a

MkRegion(y0, x0, y1, x1) == [y0 |-> y0, x0 |-> x0, y1 |-> y1, x1 |-> x1]

\* The asserts of Region::Region.
RegionOK(r) == 0 <= r.x0 /\ r.x0 <= r.x1 /\ 0 <= r.y0 /\ r.y0 <= r.y1

\* The assert of Moments::operator().
InTable(rows, cols, r) == r.x1 < cols /\ r.y1 < rows

\* One of the four reads of Moments::operator() is beyond the end of s_.
ReadsPastTable(rows, cols, r) ==
  \E y \in {r.y1, r.y0 - 1}, x \in {r.x1, r.x0 - 1} :
     y >= 0 /\ x >= 0 /\ y * cols + x >= rows * cols

\* s_[y * cols + x] where the index may be past the end of the table.
TableRead(s, cols, y, x, g) ==
  IF y < 0 \/ x < 0 THEN 0
  ELSE IF y * cols + x + 1 \in DOMAIN s THEN s[y * cols + x + 1]
  ELSE g

\* Moments::operator() on a region that need not lie within the image.
MomentsRead(s, cols, r, g) ==
  TableRead(s, cols, r.y1, r.x1, g) - TableRead(s, cols, r.y1, r.x0 - 1, g)
    + TableRead(s, cols, r.y0 - 1, r.x0 - 1, g) - TableRead(s, cols, r.y0 - 1, r.x1, g)

\* The tables m00_, m01_, m10_, m02_, m20_ of the samplers.
SamplerTables(illum) ==
  [m00 |-> MomentsTable(illum, 0, 0), m01 |-> MomentsTable(illum, 0, 1),
   m10 |-> MomentsTable(illum, 1, 0), m02 |-> MomentsTable(illum, 0, 2),
   m20 |-> MomentsTable(illum, 2, 0)]

\* One unit of cos() in millionths; a value next to zero is +1 or -1.
CosUnit == 1000000
\* sin(pi * y / H) in millionths for 0 < y < H.
SinTable == << <<>>, <<1000000>>, <<866025, 866025>>, <<707106, 1000000, 707106>>,
               <<587785, 951056, 951056, 587785>> >>

\* std::cos(y / height_ * M_PI - M_PI / 2.0f): with a floating point height_
\* the sine of pi * y / rows, with an integer height_ the cosine of an odd
\* multiple of pi / 2, which is next to zero.
RECURSIVE CosWeight(_, _, _)
CosWeight(y, H, heightInt) ==
  IF heightInt THEN (IF (y \div H) % 4 \in {0, 1, 3} THEN 1 ELSE -1)
  ELSE IF y > 2 * H THEN CosWeight(y - 2 * H, H, heightInt)
  ELSE IF y = 0 \/ y = H THEN 1
  ELSE IF y = 2 * H THEN -1
  ELSE IF y < H THEN SinTable[H][y]
  ELSE 0 - SinTable[H][y - H]

\* LightProbeSampler::width, in millionths.
RegionWidth(c, r) ==
  LET width == IF c.base = "ar" THEN r.x1 - r.x0 + 1 ELSE r.x1 - r.x0
  IN  MaxOf(CosWeight(r.y0, c.rows, c.heightInt) * width,
            CosWeight(r.y1, c.rows, c.heightInt) * width)

\* LightProbeSampler::height, in millionths.
RegionHeight(r) == (r.y1 - r.y0) * CosUnit

\* VarianceCutSampler::variance
VarianceOf(m00, m01, m10, m02, m20) ==
  LET y == TruncDiv(m10, m00)
      x == TruncDiv(m01, m00)
  IN  IF m00 = 0 THEN 0
      ELSE m20 + m02 - 2 * (x * m01 + y * m10) + m00 * (x * x + y * y)
Variance(c, r) ==
  CHOOSE var \in {VarianceOf(m.m00, m.m01, m.m10, m.m02, m.m20) :
                    m \in {[t \in DOMAIN c.tables |-> MomentsRead(c.tables[t], c.cols, r, c.g)]}} : TRUE

\* The two regions of a cut of region r after position p of an axis.
CutLow(r, axis, p) ==
  IF axis = "Y" THEN MkRegion(r.y0, r.x0, p, r.x1) ELSE MkRegion(r.y0, r.x0, r.y1, p)
CutHigh(r, axis, p) ==
  IF axis = "Y" THEN MkRegion(p + 1, r.x0, r.y1, r.x1) ELSE MkRegion(r.y0, p + 1, r.y1, r.x1)

\* std::abs(m00_(r0) - m00_(r1)) of the median cut.
DiffOf(c, r, axis, p) ==
  Abs(MomentsRead(c.tables.m00, c.cols, CutLow(r, axis, p), c.g)
        - MomentsRead(c.tables.m00, c.cols, CutHigh(r, axis, p), c.g))

\* std::max(variance(r0), variance(r1)) of the variance cut.
MaxVarOf(c, r, axis, p) ==
  MaxOf(Variance(c, CutLow(r, axis, p)), Variance(c, CutHigh(r, axis, p)))

CostOf(c, r, axis, p) ==
  IF c.kind = "median" THEN DiffOf(c, r, axis, p) ELSE MaxVarOf(c, r, axis, p)

\* The positions tried by the loop of an axis.
Tried(c, r, axis) ==
  LET lo == IF axis = "Y" THEN r.y0 ELSE r.x0
      hi == IF axis = "Y" THEN r.y1 ELSE r.x1
  IN  IF c.kind = "median" THEN lo..(hi - 1) ELSE (lo + 1)..(hi - 2)

\* The first position of least cost among the positions of a loop.
FirstLeast(costs) ==
  CHOOSE p \in DOMAIN costs :
     \A o \in DOMAIN costs : costs[p] < costs[o] \/ (costs[p] = costs[o] /\ p <= o)

\* The loop of an axis: the first position of least cost, or the start of the
\* region and the largest value of the type when no position is tried.
BestOf(c, r, axis) ==
  IF Tried(c, r, axis) = {}
  THEN [pos |-> IF axis = "Y" THEN r.y0 ELSE r.x0, max |-> TRUE, cost |-> 0]
  ELSE CHOOSE best \in {[pos |-> FirstLeast(costs), max |-> FALSE,
                          cost |-> costs[FirstLeast(costs)]] :
                           costs \in {[p \in Tried(c, r, axis) |-> CostOf(c, r, axis, p)]}} : TRUE

\* bestDiffY < bestDiffX
LessBest(a, b) == ~a.max /\ (b.max \/ a.cost < b.cost)

\* The axis of the cut of a region.
AxisOf(c, r) ==
  IF c.kind = "median"
  THEN CHOOSE axis \in {IF LessBest(bestY, bestX) THEN "Y" ELSE "X" :
                          bestY \in {BestOf(c, r, "Y")}, bestX \in {BestOf(c, r, "X")}} : TRUE
  ELSE (IF RegionWidth(c, r) < RegionHeight(r) THEN "Y" ELSE "X")

\* The cut of a region: its axis and the position on it.
CutOf(c, r) ==
  CHOOSE cut \in {[axis |-> axis, pos |-> BestOf(c, r, axis).pos] : axis \in {AxisOf(c, r)}} : TRUE

\* The regions constructed by the loops of split, whose m00_ or variance is
\* looked up, and all regions constructed by split on a region that is cut.
AskedBySplit(c, r, cut) ==
  UNION {{CutLow(r, a, p) : p \in Tried(c, r, a)} \cup {CutHigh(r, a, p) : p \in Tried(c, r, a)} :
           a \in IF c.kind = "median" THEN {"Y", "X"} ELSE {cut.axis}}
MadeBySplit(c, r, cut) ==
  AskedBySplit(c, r, cut) \cup {CutLow(r, cut.axis, cut.pos), CutHigh(r, cut.axis, cut.pos)}

\* static_cast<int>(m / area) of a leaf whose luminance is not zero.
CentroidOf(m00, m10, m01) ==
  [y |-> TruncDiv(m10, m00), x |-> TruncDiv(m01, m00), divZero |-> FALSE]

\* The centroid handed to sample by a leaf; a division by zero gives 0.
LeafCentroid(c, r) ==
  IF MomentsRead(c.tables.m00, c.cols, r, c.g) = 0
  THEN (IF c.kind = "variance"
        THEN [y |-> TruncDiv(r.y0 + r.y1, 2), x |-> TruncDiv(r.x0 + r.x1, 2), divZero |-> FALSE]
        ELSE [y |-> 0, x |-> 0, divZero |-> TRUE])
  ELSE CentroidOf(MomentsRead(c.tables.m00, c.cols, r, c.g),
                  MomentsRead(c.tables.m10, c.cols, r, c.g),
                  MomentsRead(c.tables.m01, c.cols, r, c.g))

\* The two asserts at the top of sample, present in the revision ar/.
CentroidInRegion(c, r, y, x) ==
  c.base = "app" \/ (r.x0 <= x /\ x <= r.x1 /\ r.y0 <= y /\ y <= r.y1)

\* The loops of sample read a row or a column that image_ does not have.
SampleReadsPastImage(c, r) ==
  r.y0 <= r.y1 /\ r.x0 <= r.x1 /\ (r.y1 >= c.rows \/ r.x1 >= c.cols)

\* The asserts that fail when the regions made are constructed and the
\* regions asked are looked up in a table.
FailedBy(c, made, asked) ==
  (IF \E r \in made : ~RegionOK(r) THEN {"Region"} ELSE {})
    \cup (IF \E r \in asked : ~InTable(c.rows, c.cols, r) THEN {"Moments"} ELSE {})

\* The branch of split that emits the light of a region with centroid cen.
LeafCall(c, r, cen) ==
  [lights |-> <<[region |-> r, centroidY |-> cen.y, centroidX |-> cen.x]>>,
   cuts |-> <<>>,
   calls |-> <<>>,
   failed |-> FailedBy(c, {}, {r})
                \cup (IF CentroidInRegion(c, r, cen.y, cen.x) THEN {} ELSE {"sample"}),
   divZero |-> cen.divZero,
   outOfTable |-> ReadsPastTable(c.rows, c.cols, r) \/ SampleReadsPastImage(c, r)]

\* The branch of split that cuts a region and calls split on the two parts.
CutCall(c, r, depth, cut) ==
  [lights |-> <<>>,
   cuts |-> <<[region |-> r, axis |-> cut.axis, pos |-> cut.pos]>>,
   calls |-> <<[region |-> CutLow(r, cut.axis, cut.pos), depth |-> depth + 1],
               [region |-> CutHigh(r, cut.axis, cut.pos), depth |-> depth + 1]>>,
   failed |-> FailedBy(c, MadeBySplit(c, r, cut), AskedBySplit(c, r, cut)),
   divZero |-> FALSE,
   outOfTable |-> \E q \in AskedBySplit(c, r, cut) : ReadsPastTable(c.rows, c.cols, q)]

\* MedianCutSampler::split and VarianceCutSampler::split on a region at a
\* depth: the light emitted or the cut made, the calls of split it makes, the
\* asserts that fail and the undefined operations on the way.
SplitCall(c, r, depth) ==
  IF depth >= c.depth_
  THEN CHOOSE out \in {LeafCall(c, r, cen) : cen \in {LeafCentroid(c, r)}} : TRUE
  ELSE CHOOSE out \in {CutCall(c, r, depth, cut) : cut \in {CutOf(c, r)}} : TRUE

\* The region handed to split by operator().
RootRegion(base, rows, cols) ==
  IF base = "ar" THEN MkRegion(0, 0, rows - 1, cols - 1) ELSE MkRegion(1, 0, rows - 1, cols - 1)

\* The members of the sampler, and the value g read outside a table.
SamplerContext(g) ==
  [kind |-> sampler.kind, base |-> sampler.base, heightInt |-> sampler.heightInt,
   depth_ |-> sampler.depth_, rows |-> sampler.rows, cols |-> sampler.cols,
   tables |-> sampler.tables, g |-> g]

\* The constructors of the samplers: the luminance map and its tables.
S_Construct ==
  /\ sampler.pc = "image"
  /\ sampler' = [sampler EXCEPT !.pc = "built", !.rows = Len(sampler.illum),
                                !.cols = Len(sampler.illum[1]),
                                !.tables = SamplerTables(sampler.illum)]
  /\ UNCHANGED <<trackerVars, NDEBUG, scene, views, hamming, moments, blurd, ekf, builderVars>>

\* LightProbeSampler::operator() up to the call of split: the region of the
\* whole image is constructed.
S_Call ==
  /\ sampler.pc = "built"
  /\ LET root == RootRegion(sampler.base, sampler.rows, sampler.cols)
     IN  sampler' = [sampler EXCEPT
                       !.pc = IF ~NDEBUG /\ ~RegionOK(root) THEN "crashed" ELSE "split",
                       !.stack = <<[region |-> root, depth |-> 0]>>,
                       !.failed = IF RegionOK(root) THEN {} ELSE {"Region"}]
  /\ UNCHANGED <<trackerVars, NDEBUG, scene, views, hamming, moments, blurd, ekf, builderVars>>

\* The innermost pending call of split. A failed assert aborts a build with
\* asserts, and the asserts on regions fail before a table is read outside.
\* An integer division by zero or a read outside a table or the image either
\* faults or goes on, with a quotient of 0 and a value g read.
S_Split ==
  /\ sampler.pc = "split"
  /\ sampler.stack # <<>>
  /\ \E g \in Garbage, fault \in BOOLEAN :
       \E done \in {SplitCall(c, top.region, top.depth) :
                       c \in {SamplerContext(g)}, top \in {Head(sampler.stack)}} :
          \E early \in {~NDEBUG /\ done.failed \cap {"Region", "Moments"} # {}} :
             /\ g # 0 => (done.outOfTable /\ ~early)
             /\ fault => (~early /\ (done.divZero \/ done.outOfTable))
             /\ sampler' = [sampler EXCEPT
                              !.pc = IF fault \/ (~NDEBUG /\ done.failed # {})
                                     THEN "crashed" ELSE "split",
                              !.stack = done.calls \o Tail(sampler.stack),
                              !.lights_ = @ \o done.lights,
                              !.cuts = @ \o done.cuts,
                              !.failed = @ \cup done.failed,
                              !.divZero = @ \/ (~early /\ done.divZero),
                              !.outOfTable = @ \/ (~early /\ done.outOfTable)]
  /\ UNCHANGED <<trackerVars, NDEBUG, scene, views, hamming, moments, blurd, ekf, builderVars>>

\* LightProbeSampler::operator() returns lights_.
S_Return ==
  /\ sampler.pc = "split"
  /\ sampler.stack = <<>>
  /\ sampler' = [sampler EXCEPT !.pc = "done"]
  /\ UNCHANGED <<trackerVars, NDEBUG, scene, views, hamming, moments, blurd, ekf, builderVars>>

\* A sampler of either kind is created for a luminance map and a depth.
SamplerInit ==
  /\ TrackerInit
  /\ EnvInit
  /\ NDEBUG \in BOOLEAN
  /\ scene = Detections
  /\ views = CamPoses
  /\ hamming = HammingIdle
  /\ moments = MomentsIdle
  /\ blurd = BlurIdle
  /\ ekf = EkfIdle
  /\ checkBlur_ = FALSE
  /\ \E kind \in SamplerKinds, base \in SamplerBases, heightInt \in BOOLEAN,
        depth \in 0..MaxDepth, illum \in Luminances :
       sampler = [SamplerIdle EXCEPT !.pc = "image", !.kind = kind, !.base = base,
                                     !.heightInt = heightInt, !.depth_ = depth,
                                     !.illum = illum]

SamplerNext == S_Construct \/ S_Call \/ S_Split \/ S_Return

SamplerSpec == SamplerInit /\ [][SamplerNext]_vars

\* ------------------------------------------------------------ EKFOrientation
\* The filter is followed along the axis of its initial state (0, 1, 0, 0),
\* where its matrices stay diagonal: the measurements are that quaternion and
\* its negative. Quaternions are multiples of the axis, in units of 1 / FixedOne;
\* variances are in units of 1e-4: the variance of the state along the axis
\* (radial), of each of the three directions across it (tangent), and of each of
\* the six components of angular velocity and acceleration (rest).
Measurements == {FixedOne, 0 - FixedOne}

\* EKFUpdate::Update with dt = 0: r = 0, so the quaternion added to the state
\* is zero and the state is returned unchanged, with F = I and WF = I.
PredictState(x) == x

\* F * p_ * F^T + WF * q_ * WF^T
PredictCovariance(e) ==
  [radial |-> e.radial + q_Quat, tangent |-> e.tangent + q_Quat, rest |-> e.rest + q_Rest]

\* EKFMarkerUpdate::Measure: the state quaternion, normalized when its norm
\* is above 1e-6.
Measure(x) == IF x > 0 THEN FixedOne ELSE IF x < 0 THEN 0 - FixedOne ELSE 0

\* The gain along the axis is zero, as H = (I - n n^T) / |x| has no component
\* along the axis n: k * (zm - z) for an innovation along the axis.
GainRadial == 0

\* (I - k * H) * p across the axis, for a state of norm 1:
\* p - p * p / (p + r) = p * r / (p + r).
UpdateTangent(p) == (p * rM_Diag) \div (p + rM_Diag)

\* The trace of p_.
CovarianceTrace == ekf.radial + 3 * ekf.tangent + 6 * ekf.rest

\* EKFOrientation::GetOrientation
GetOrientation == Measure(ekf.x)

\* EKFOrientation::UpdateMarker(q, 0) with the constant measurement zm.
E_UpdateMarker ==
  /\ ekf.pc = "run"
  /\ ekf.updates < MaxUpdates
  /\ LET x == PredictState(ekf.x)
         p == PredictCovariance(ekf)
         z == Measure(x)
     IN  ekf' = [ekf EXCEPT !.x = x + (GainRadial * (ekf.zm - z)) \div FixedOne,
                            !.radial = p.radial,
                            !.tangent = UpdateTangent(p.tangent),
                            !.rest = p.rest,
                            !.updates = @ + 1,
                            !.prevTrace = CovarianceTrace]
  /\ UNCHANGED <<trackerVars, NDEBUG, scene, views, hamming, moments, blurd, sampler, builderVars>>

\* EKFOrientation::EKFOrientation, and the measurement of the run.
EkfInit ==
  /\ TrackerInit
  /\ EnvInit
  /\ NDEBUG = TRUE
  /\ checkBlur_ = FALSE
  /\ scene = Detections
  /\ views = CamPoses
  /\ hamming = HammingIdle
  /\ moments = MomentsIdle
  /\ blurd = BlurIdle
  /\ sampler = SamplerIdle
  /\ \E zm \in Measurements :
       ekf = [EkfIdle EXCEPT !.pc = "run", !.zm = zm, !.x = FixedOne, !.radial = p_Init,
                             !.tangent = p_Init, !.rest = p_Init,
                             !.prevTrace = 10 * p_Init]

EkfSpec == EkfInit /\ [][E_UpdateMarker]_vars

\* ---------------------------------------------------------- specification
TrackStep ==
  \/ T_CheckEmpty \/ T_LockRef \/ T_InsertRef \/ T_FindKnown \/ T_SolvePose
  \/ T_NewMarker \/ T_LockNew \/ T_InsertNew \/ T_NewDone
  \/ T_LockRefine \/ T_Refine \/ T_LockPose \/ T_Novel \/ T_Notify \/ T_Return
  \/ D_Join

BAStep ==
  \/ B_While \/ B_Lock \/ B_Wait \/ B_Wake \/ B_Check
  \/ B_LockM1 \/ B_SnapMarkers \/ B_LockP1 \/ B_SnapPoses \/ B_Solve
  \/ B_LockM2 \/ B_WriteMarkers \/ B_LockP2 \/ B_WritePoses

TrackerNext ==
  \/ T_TrackFrame \/ D_Destroy \/ TrackStep \/ BAStep \/ B_Spurious

Next == TrackerNext

Spec == Init /\ [][Next]_vars

\* The threads keep being scheduled; frames arrive and the tracker is
\* destroyed when the caller decides; no spurious wakeup is promised.
FairSpec == Spec /\ WF_vars(TrackStep) /\ WF_vars(BAStep)
\* The environment builder alone.
EnvSpec == Init /\ [][EnvNext]_vars

\* A session of single frames, sharp or blurry, long enough to leave the
\* bootstrap of the global matching.
BootInit ==
  /\ TrackerInit
  /\ PureIdle
  /\ BuilderInit
  /\ checkBlur_ \in BOOLEAN
  /\ baMethod_ = "RAYS"
  /\ session = BootSession
  /\ NDEBUG \in BOOLEAN
  /\ scene = Detections
  /\ views = CamPoses

BootSpec == BootInit /\ [][EnvNext]_vars

\* A session of single good frames, followed or interleaved with Composite.
CompositeInit ==
  /\ TrackerInit
  /\ PureIdle
  /\ BuilderInit
  /\ checkBlur_ = FALSE
  /\ baMethod_ \in BAMethods
  /\ session = CompositeSession
  /\ NDEBUG = TRUE
  /\ scene = Detections
  /\ views = CamPoses

ProjectInit ==
  /\ TrackerInit
  /\ PureIdle
  /\ BuilderInit
  /\ checkBlur_ = FALSE
  /\ baMethod_ \in BAMethods
  /\ session = ProjectSession
  /\ NDEBUG = TRUE
  /\ scene = Detections
  /\ views = CamPoses

ProjectSpec == ProjectInit /\ [][CompositeNext]_vars

CompositeSpec == CompositeInit /\ [][CompositeNext]_vars

LiveSpec == LiveInit /\ [][Next]_vars /\ WF_vars(TrackStep) /\ WF_vars(BAStep)


\* ==================================================================== claims
\* The frame-tracking path is at an access to markers_.
TrackAccessesMarkers ==
  \/ pcT \in {"empty", "insertRef", "found", "pnp", "insertNew", "refine"}
  \/ pcT = "new" /\ tl.i <= Len(tl.ids)

\* C1: once the destructor has set the termination flag and waits in join,
\* the background thread leaves its loop and the join returns.
C1_DestructionCompletes ==
  (pcT = "join" /\ ~crashed) ~> (pcT = "destroyed" \/ crashed)

\* C2: no access of TrackFrameImpl to the marker map overlaps the background
\* thread's write-back of the marker poses.
C2_NoAccessDuringWriteBack ==
  ~(TrackAccessesMarkers /\ pcB = "wbM")

\* C3: once a reference is chosen it is never reassigned, and its marker stays
\* in the map at the origin with identity orientation.
C3_ReferenceFixed ==
  [][/\ reference_' # NoRef =>
          (reference_' \in DOMAIN markers_' /\ markers_'[reference_'] = Origin)
     /\ reference_ # NoRef => reference_' = reference_]_vars

\* C3 witness: a bundle adjustment pass has written back while a second
\* marker, away from the origin, is in the map beside the reference.
C3_Witness ==
  /\ bl.processed >= 1
  /\ reference_ # NoRef
  /\ \E id \in DOMAIN markers_ : id # reference_ /\ markers_[id] # Origin
  /\ markers_[reference_] = Origin

Novel(log, t, q, ids) ==
  \/ \A k \in 1..Len(log) :
        \/ Distance(log[k].t, t) > kMinDistance
        \/ AngleBetween(log[k].q, q) > kMinAngle
  \/ \E j \in 1..Len(ids) : ids[j] \notin ObservedIds(log)

\* C6: a pose is appended to the log only when it is novel with respect to
\* the whole log.
C6_AppendOnlyNovel ==
  [][Len(poses_') > Len(poses_) => Novel(poses_, tl.t, tl.q, tl.ids)]_vars

\* C7: while the tracker runs, every pose appended to the log is eventually
\* covered by a completed BundleAdjust pass.
C7_AppendedPoseAdjusted ==
  \A n \in 1..MaxFrames :
    (Len(poses_) >= n /\ running_ /\ ~crashed)
      ~> (bl.processed >= n \/ ~running_ \/ crashed)

\* C7 witness: a pose was appended while a pass was in progress, and a later
\* pass has covered it.
C7_Witness ==
  /\ running_ /\ ~crashed
  /\ Len(poses_) >= 2
  /\ bl.processed = Len(poses_)
  /\ pcB = "blocked"

\* C8: no thread holds the marker-map lock and the pose-log lock together,
\* nor asks for one while holding the other.
C8_NeverBothLocks ==
  /\ ~(markerMutex_ = "track" /\ poseMutex_ = "track")
  /\ ~(markerMutex_ = "ba" /\ poseMutex_ = "ba")
  /\ pcT \in {"lockRef", "lockNew", "lockRefine", "lockPose"} =>
       (markerMutex_ # "track" /\ poseMutex_ # "track")
  /\ pcB \in {"lock", "woken", "lockM1", "lockP1", "lockM2", "lockP2"} =>
       (markerMutex_ # "ba" /\ poseMutex_ # "ba")

\* C8 witness: both locks are held at once, by different threads.
C8_Witness ==
  markerMutex_ = "track" /\ poseMutex_ = "ba" /\ pcB = "wbP"

\* C9: during the solve the background thread holds neither lock; it holds
\* the marker lock only in a copy or a write-back, the pose lock only in the
\* wait predicate, a copy or a write-back.
C9_SolveHoldsNoLock ==
  /\ pcB = "solve" => (markerMutex_ # "ba" /\ poseMutex_ # "ba")
  /\ markerMutex_ = "ba" => pcB \in {"snapM", "wbM"}
  /\ poseMutex_ = "ba" => pcB \in {"wait", "check", "snapP", "wbP"}

\* C9 witness: the tracking path holds the pose lock while a solve runs.
C9_Witness ==
  pcB = "solve" /\ ~bl.miss /\ poseMutex_ = "track" /\ pcT = "novel"

\* C4: an AddFrames call that throws leaves the exposure list, the frames,
\* the feature graph and the frame-index counter as they were.
C4_FailedBatchChangesNothing ==
  [][lastError' \in Exceptions =>
       UNCHANGED <<exposures_, frames_, graph_, index_>>]_vars

\* The frame indices of the nodes and of their neighbours in a graph.
GraphFrames(g) ==
  {n[1] : n \in DOMAIN g} \cup UNION {{g[n][k][1] : k \in 1..Len(g[n])} : n \in DOMAIN g}

\* C10: the frame-index counter equals the number of accumulated frames, the
\* frame at position i has index i, and every node of the feature graph
\* addresses an accumulated frame.
C10_DenseFrameIndices ==
  /\ index_ = Len(frames_)
  /\ \A k \in 1..Len(frames_) : frames_[k].index = k - 1
  /\ \A f \in GraphFrames(graph_) : f \in 0..(Len(frames_) - 1)

\* C10 witness: a batch failed after frames were committed and matched.
C10_Witness ==
  /\ lastError \in Exceptions
  /\ Len(frames_) >= 2
  /\ \E n \in DOMAIN graph_ : n[1] = Len(frames_) - 1

\* The smallest distance among the matches of the pair.
BestDistance(matches) == CHOOSE d \in Range(matches) : \A e \in Range(matches) : d <= e

\* The number of matches of distance d.
CountOf(matches, d) == Cardinality({k \in 1..Len(matches) : matches[k] = d})

\* C11: after the Hamming-distance gate every surviving match has distance at
\* most min(kMaxHammingDistance, 5 x the smallest distance), every match within
\* that bound survives, and the graph is empty when fewer than kMinMatches
\* matches survive.
C11_HammingGateKeepsBest ==
  (hamming.pc = "done" /\ hamming.gated) =>
    LET bound == Min(kMaxHammingDistance, kBestDistanceFactor * BestDistance(hamming.matches))
    IN  /\ \A k \in 1..Len(hamming.survivors) : hamming.survivors[k] <= bound
        /\ \A d \in Range(hamming.matches) :
              d <= bound => CountOf(hamming.survivors, d) = CountOf(hamming.matches, d)
        /\ Len(hamming.survivors) < kMinMatches => hamming.empty

\* b to the power e, with b^0 = 1.
RECURSIVE Pow(_, _)
Pow(b, e) == IF e = 0 THEN 1 ELSE b * Pow(b, e - 1)

\* The sum over the region's pixels of y^I * x^J * value.
MomentOf(image, I, J, r) ==
  LET px == {<<y, x>> : y \in (r.y0)..(r.y1), x \in (r.x0)..(r.x1)}
      term(p) == Pow(p[1], I) * Pow(p[2], J) * Pixel(image, p[1], p[2])
      RECURSIVE SumOver(_)
      SumOver(S) == IF S = {} THEN 0
                    ELSE LET p == CHOOSE q \in S : TRUE IN term(p) + SumOver(S \ {p})
  IN  SumOver(px)

\* Two regions that tile r: r cut between two rows or between two columns.
Tilings(r) ==
  {<<[r EXCEPT !.y1 = c], [r EXCEPT !.y0 = c + 1]>> : c \in (r.y0)..(r.y1 - 1)}
    \cup {<<[r EXCEPT !.x1 = c], [r EXCEPT !.x0 = c + 1]>> : c \in (r.x0)..(r.x1 - 1)}

\* C20: a query returns the sum over the region's pixels of y^I * x^J * value;
\* the 0th moment of a uniform region is area x value, and the moments of two
\* regions that tile the region add up to its moment.
C20_MomentsAreRegionSums ==
  moments.pc = "query" =>
    LET r == moments.r
    IN  /\ moments.value = MomentOf(moments.image, moments.I, moments.J, r)
        /\ \A v \in PixelValues :
             (/\ moments.I = 0 /\ moments.J = 0
              /\ \A y \in (r.y0)..(r.y1), x \in (r.x0)..(r.x1) : Pixel(moments.image, y, x) = v)
               => moments.value = (r.y1 - r.y0 + 1) * (r.x1 - r.x0 + 1) * v
        /\ \A t \in Tilings(r) :
             MomentsQuery(moments.s_, moments.cols, t[1])
               + MomentsQuery(moments.s_, moments.cols, t[2]) = moments.value

\* C20 witness: a second-order moment of a region that starts inside a
\* three-row image and holds a bright pixel.
C20_Witness ==
  /\ moments.pc = "query"
  /\ moments.I = 2 /\ moments.J = 1
  /\ moments.rows = 3
  /\ moments.r.y0 = 1 /\ moments.r.x0 = 1 /\ moments.r.y1 = 2
  /\ moments.value > 255

\* C17: when the reference is chosen, it is the first marker id detected in
\* the frame, an id that was detected in that frame, and it is inserted at
\* the origin with identity orientation.
C17_ReferenceIsFirstDetected ==
  [][(reference_ = NoRef /\ reference_' # NoRef) =>
       /\ tl.det # <<>>
       /\ reference_' = tl.det[1]
       /\ reference_' \in Range(tl.det)
       /\ reference_' \in DOMAIN markers_' /\ markers_'[reference_'] = Origin]_vars

\* No group holds two observations of one frame.
OnePerFrame(groups) ==
  \A i \in 1..Len(groups) :
     \A a, b \in 1..Len(groups[i]) : groups[i][a].frame = groups[i][b].frame => a = b

\* The observations of frame f in a group, as indices.
ObsIn(group, f) == {k \in 1..Len(group) : group[k].frame = f}

\* Sum of a coordinate, and of its squared deviations from n times the mean,
\* over a set of observations of a group.
RECURSIVE CoordSum(_, _, _)
CoordSum(group, ks, c) ==
  IF ks = {} THEN 0
  ELSE LET k == CHOOSE x \in ks : TRUE IN group[k].pt[c] + CoordSum(group, ks \ {k}, c)

RECURSIVE Deviation(_, _, _, _)
Deviation(group, ks, c, mean) ==
  IF ks = {} THEN 0
  ELSE LET k == CHOOSE x \in ks : TRUE
       IN  (group[k].pt[c] - mean) * (group[k].pt[c] - mean) + Deviation(group, ks \ {k}, c, mean)

\* The variance vector of the observations of frame f has norm at most
\* kMaxGroupStd squared (the variance as mean squared deviation; all the
\* divisions by the number of observations are exact on the point layouts).
WithinScatter(group, f) ==
  LET ks == ObsIn(group, f)
      n  == Cardinality(ks)
      vx == Deviation(group, ks, 1, CoordSum(group, ks, 1) \div n) \div n
      vy == Deviation(group, ks, 2, CoordSum(group, ks, 2) \div n) \div n
  IN  vx * vx + vy * vy <= kMaxGroupStd * kMaxGroupStd * kMaxGroupStd * kMaxGroupStd

GroupWithinScatter(group) ==
  \A f \in {group[k].frame : k \in 1..Len(group)} : WithinScatter(group, f)

\* repaired holds, for each frame of group, one observation at the mean
\* position of the frame's observations in group.
IsRepairOf(repaired, group) ==
  /\ {repaired[k].frame : k \in 1..Len(repaired)} = {group[k].frame : k \in 1..Len(group)}
  /\ OnePerFrame(<<repaired>>)
  /\ \A k \in 1..Len(repaired) :
        LET ks == ObsIn(group, repaired[k].frame)
        IN  repaired[k].pt = <<CoordSum(group, ks, 1) \div Cardinality(ks),
                               CoordSum(group, ks, 2) \div Cardinality(ks)>>

ObsOf(fr, node) == [frame |-> node[1], pt |-> fr[node[1] + 1].pts[node[2] + 1]]

\* The nodes joined to the nodes of S by a path of match edges.
RECURSIVE Reach(_, _)
Reach(g, S) ==
  LET T == S \cup {m \in DOMAIN g : \E n \in S : \E k \in 1..Len(g[n]) : g[n][k] = m}
  IN  IF T = S THEN S ELSE Reach(g, T)

\* The groups of a sequence that hold the observation of a node.
GroupsOf(groups, fr, node) ==
  {i \in 1..Len(groups) : \E k \in 1..Len(groups[i]) : groups[i][k] = ObsOf(fr, node)}

RECURSIVE TotalLen(_, _)
TotalLen(groups, k) == IF k = 0 THEN 0 ELSE Len(groups[k]) + TotalLen(groups, k - 1)

\* C13: the groups GroupMatches appends before the repair are the connected
\* components of the feature graph: every node is in exactly one of them, and
\* two nodes are in the same one exactly when a path of match edges joins them.
C13_GroupsAreComponents ==
  [][(pcC = "idle" /\ pcC' = "repair") =>
       LET new == SubSeq(groups_', Len(groups_) + 1, Len(groups_'))
       IN  /\ TotalLen(new, Len(new)) = Cardinality(DOMAIN graph_)
           /\ \A n \in DOMAIN graph_ : Cardinality(GroupsOf(new, frames_, n)) = 1
           /\ \A n, m \in DOMAIN graph_ :
                (m \in Reach(graph_, {n}))
                  <=> (GroupsOf(new, frames_, n) = GroupsOf(new, frames_, m))]_vars

\* C13 witness: keypoint 0 matched pairwise across three frames is one group
\* of three observations.
C13_Witness ==
  /\ pcC = "repair"
  /\ composites = 1
  /\ \E i \in 1..Len(groups_) :
        /\ Len(groups_[i]) = 3
        /\ {groups_[i][k].frame : k \in 1..3} = {0, 1, 2}
        /\ \A k \in 1..3 : groups_[i][k].pt = <<0, 0>>
  /\ \A n \in DOMAIN graph_ : Len(graph_[n]) = 2

\* C14: a batch whose exposure times differ from the recorded list, in
\* length or in an element, is rejected and none of its frames is appended.
C14_MismatchedExposuresRejected ==
  [][call'.mismatch => (lastError' # "OK" /\ frames_' = frames_)]_vars

\* C15: a batch that holds a uniformly black frame fails with
\* NOT_ENOUGH_FEATURES, with or without blur checking, and commits nothing.
C15_BlackFrameNotEnoughFeatures ==
  [][call'.black # "none" =>
       /\ lastError' = "NOT_ENOUGH_FEATURES"
       /\ UNCHANGED <<frames_, graph_, index_>>]_vars

Returned == IF pcC = "idle" THEN composites ELSE composites - 1

\* C18: once a Composite call has returned, no later call changes the
\* accumulated frames, the feature graph or the match groups.
C18_CompositeIsTerminal ==
  [][Returned >= 1 => UNCHANGED <<frames_, graph_, groups_>>]_vars

\* The phases and notifications of a complete Composite call, in order.
CompositeEvents ==
  <<"GroupMatches", "Match Graph Optimization", "Optimize", "Bundle Adjustment",
    "Project", "Compositing">>

\* C19: a Composite call makes its three notifications in order, each after
\* its phase has completed (the groups are repaired, the frames with
\* residuals are marked, the images are projected), and has made all three
\* when it returns.
C19_ProgressInOrder ==
  composites >= 1 =>
    /\ Len(events) <= Len(CompositeEvents)
    /\ events = SubSeq(CompositeEvents, 1, Len(events))
    /\ (pcC # "idle" /\ Len(events) >= 2) => OnePerFrame(groups_)
    /\ (pcC # "idle" /\ Len(events) >= 4) =>
         \A k \in 1..Len(frames_) :
            frames_[k].index \in MarkedFrames(baMethod_, groups_) => frames_[k].optimized
    /\ (pcC # "idle" /\ Len(events) >= 6) => Len(composited) = Len(exposures_)
    /\ (pcC \in {"return", "idle"}) => events = CompositeEvents

\* C19 witness: the second Composite call of a session with three frames is
\* about to return.
C19_Witness ==
  pcC = "return" /\ composites = 2 /\ Len(frames_) = 3 /\ Len(groups_) >= 2

\* C23: when BundleAdjust builds its problem from the pose log, every marker
\* id observed by a pose of the log is present in the copy of the markers
\* taken at the start of the pass.
C23_ObservedMarkersInSnapshot ==
  pcB = "snapP" => ObservedIds(poses_) \subseteq DOMAIN bl.markers

\* C24: every observation of a pose record pairs a marker id with the corners
\* detected for that marker, and the id list and the corner list handed to a
\* pose record have the same length.
C24_ObservationsPairIdWithItsCorners ==
  /\ \A k \in 1..Len(poses_) : \A j \in 1..Len(poses_[k].observed) :
        poses_[k].observed[j][1] = poses_[k].observed[j][2]
  /\ (pcT = "novel" /\ AddPose(poses_, tl.t, tl.q, tl.ids)) => Len(tl.ids) = Len(tl.det)

\* The entries of the log that exist before a step keep their place and
\* their observations.
LogKept ==
  /\ Len(poses_') >= Len(poses_)
  /\ \A k \in 1..Len(poses_) : poses_'[k].observed = poses_[k].observed

\* C25: the write-back of a pass changes only the pose of the markers and of
\* the log entries of its snapshot; markers inserted and poses appended since
\* are kept as they are; no step removes or reorders a log entry or changes
\* its observations.
C25_WriteBackTouchesOnlySnapshot ==
  /\ [](pcB = "wbM" => DOMAIN bl.markers \subseteq DOMAIN markers_)
  /\ [][/\ LogKept
        /\ (pcB = "wbM" /\ pcB' = "lockP2") =>
             /\ DOMAIN markers_' = DOMAIN markers_
             /\ \A id \in DOMAIN markers_ \ DOMAIN bl.markers : markers_'[id] = markers_[id]
        /\ (pcB = "wbP" /\ pcB' = "while") =>
             /\ Len(poses_') = Len(poses_)
             /\ \A k \in (bl.poses + 1)..Len(poses_) : poses_'[k] = poses_[k]]_vars

\* C25 witness: the markers have been written back while the map holds a
\* marker and the log a pose that the snapshot does not have.
C25_Witness ==
  /\ pcB = "lockP2"
  /\ DOMAIN markers_ # DOMAIN bl.markers
  /\ Len(poses_) > bl.poses

\* C26: the feature graph is symmetric and closed: a neighbour b of a node a
\* is a key of the graph, lists a, and belongs to another frame than a.
C26_GraphSymmetricAndClosed ==
  \A a \in DOMAIN graph_ : \A k \in 1..Len(graph_[a]) :
     LET b == graph_[a][k]
     IN  /\ b \in DOMAIN graph_
         /\ \E j \in 1..Len(graph_[b]) : graph_[b][j] = a
         /\ a[1] # b[1]

\* C26 witness: three frames are accumulated and a node has neighbours in two
\* other frames.
C26_Witness ==
  /\ Len(frames_) = 3
  /\ \E a \in DOMAIN graph_ :
        Cardinality({graph_[a][k][1] : k \in 1..Len(graph_[a])}) >= 2

\* A frame shares a group of groups_ with another frame.
InSurvivingGroup(f) ==
  \E i \in 1..Len(groups_) :
     /\ \E a \in 1..Len(groups_[i]) : groups_[i][a].frame = f
     /\ \E b \in 1..Len(groups_[i]) : groups_[i][b].frame # f

C28_BlurryExactlyBelowShare ==
  blurd.pc = "checked" =>
    (blurd.error = "BLURRY" <=>
       (blurd.Nedge = 0 \/ blurd.Nda * 1000 < kMinBlurThreshold * blurd.Nedge))

\* The pixels of a region.
LeafPixels(r) == (r.y0..r.y1) \X (r.x0..r.x1)

\* C21: a sampler that returns emits exactly 2^depth lights, and the leaf
\* regions are non-empty, pairwise disjoint and cover every pixel of the image.
C21_LeavesPartitionTheImage ==
  sampler.pc = "done" =>
    /\ Len(sampler.lights_) = Pow(2, sampler.depth_)
    /\ \A k \in 1..Len(sampler.lights_) : RegionOK(sampler.lights_[k].region)
    /\ \A j, k \in 1..Len(sampler.lights_) :
         j # k => LeafPixels(sampler.lights_[j].region) \cap LeafPixels(sampler.lights_[k].region) = {}
    /\ UNION {LeafPixels(sampler.lights_[k].region) : k \in 1..Len(sampler.lights_)}
         = (0..(sampler.rows - 1)) \X (0..(sampler.cols - 1))

\* C29: where every region is well formed and within the image, the samplers
\* compute the centroid of a leaf without dividing by zero, and the centroid
\* passes the two asserts of sample.
C29_CentroidWithoutDivisionByZero ==
  (/\ sampler.pc \in {"done", "crashed"}
   /\ sampler.failed \cap {"Region", "Moments"} = {}
   /\ ~sampler.outOfTable)
    => (~sampler.divZero /\ "sample" \notin sampler.failed)

\* C30: the cut of the variance cut sampler has, among all positions that
\* leave two non-empty regions, the least value of the larger variance.
C30_CutMinimisesLargerVariance ==
  (sampler.pc = "done" /\ sampler.kind = "variance") =>
    \A k \in 1..Len(sampler.cuts) :
       LET cut == sampler.cuts[k]
           r   == cut.region
           lo  == IF cut.axis = "Y" THEN r.y0 ELSE r.x0
           hi  == IF cut.axis = "Y" THEN r.y1 ELSE r.x1
       IN  (RegionOK(r) /\ InTable(sampler.rows, sampler.cols, r)) =>
             \A p \in lo..(hi - 1) :
                MaxVarOf(SamplerContext(0), r, cut.axis, cut.pos)
                  <= MaxVarOf(SamplerContext(0), r, cut.axis, p)

\* Two quaternions that are the same rotation.
SameRotation(a, b) == a = b \/ a = 0 - b

====
